---- MODULE Spec2Model ----
(***************************************************************************)
(* Session handling of soil-backend (src/src/controllers/User.ts): signup, *)
(* login, logout, access-token refresh, password change and reset, and     *)
(* account deletion, over the UserTable and RefreshTokenTable rows and the *)
(* signed tokens.                                                          *)
(* A handler runs to completion in one step, but where a claim is about    *)
(* overlapping requests: there a login or a signup is two steps, and other *)
(* requests run between its reads and its writes.                          *)
(***************************************************************************)
EXTENDS Integers, Sequences, FiniteSets, TLC

VARIABLES
    users,          \* UserTable: the user rows
    nextId,         \* UserTable: the next auto-increment id
    refreshTokens,  \* RefreshTokenTable: the rows [userId, refreshToken, expiration]
    issued,         \* number of refresh-token values drawn so far (a value never repeats)
    now,            \* the clock, in minutes
    ticks,          \* number of clock advances so far
    res,            \* the request handled by the last step and its response
    revoked,        \* history: the rows destroyed so far, with the handler that did it
    run,            \* history: per user id, the current run of consecutive logins
    generated,      \* number of random passwords drawn so far (a value never repeats)
    codes,          \* history: the reset codes issued so far, each with the id
                    \* of the user it was issued to and how often it was
                    \* redeemed (counted up to 2)
    deleted,        \* history: id and email of the user rows destroyed so far
    server,         \* the process: its environment, how far its start has come,
                    \* and the module variables of the serverless entry point
    pending         \* the requests in flight: what each has read so far

vars ==
    <<users, nextId, refreshTokens, issued, now, ticks, res, revoked, run,
      generated, codes, deleted, server, pending>>

----------------------------------------------------------------------------
\* Bounds of the model.

MaxUsers == 2
MaxIssued == 2
MaxTicks == 1
RunLogins == 103
MaxCodes == 1
MaxGenerated == 2
MaxPending == 1
MaxInFlight == 2
MaxAttempts == 4

\* Constants of the program (times in minutes).

REFRESH_TOKEN_CAP == 100
ACCESS_TOKEN_TTL == 60
REFRESH_TOKEN_EXPIRATION == 43200
WORD16 == 65536
MAX_PSWD_LEN == 100
RESET_CODE_TTL == 5
GENERATED_PSWD_LEN == 12

----------------------------------------------------------------------------
\* Values.

NULL == [null |-> TRUE]

JWT_SECRET == "JWT_SECRET"

Emails == {"a@x.com", "b@x.com"}
Names == {"alice1", "bob2"}

\* The profiles a signup is tried with.
Profiles ==
    { [email |-> "a@x.com", name |-> "alice1"], [email |-> "b@x.com", name |-> "bob2"] }

\* A password: its text, its length, and what getPswdValidities finds in it
\* (pswdLen: long enough; partOf: the names and emails that contain the
\* text, ignoring case).
PwA ==
    [text |-> "Str0ng!Pwd", len |-> 10, pswdLen |-> TRUE, ul |-> TRUE, ll |-> TRUE,
     nums |-> TRUE, specChars |-> TRUE, partOf |-> {}]
PwB ==
    [text |-> "N3w!Passwd", len |-> 10, pswdLen |-> TRUE, ul |-> TRUE, ll |-> TRUE,
     nums |-> TRUE, specChars |-> TRUE, partOf |-> {}]
PwWeak ==
    [text |-> "alice1", len |-> 6, pswdLen |-> FALSE, ul |-> FALSE, ll |-> TRUE,
     nums |-> TRUE, specChars |-> FALSE, partOf |-> {"alice1"}]

\* The passwords each request is tried with.
SignupPasswords == {PwA, PwWeak}
LoginPasswords == {PwA, PwB}
NewPasswords == {PwB, PwWeak}

UserIds == 1..MaxUsers

----------------------------------------------------------------------------
\* bcrypt.

bcryptHash(password) == [bcrypt |-> password.text]

EmptyHash == [bcrypt |-> ""]

\* bcrypt.compare(password, hash): "" is the hash of nothing.
bcryptCompare(password, hash) == hash # EmptyHash /\ hash = bcryptHash(password)

----------------------------------------------------------------------------
\* jsonwebtoken. A token is its payload (userId, exp) and a signature over
\* that payload; MALFORMED is a string that is no token at all.

MALFORMED == [malformed |-> TRUE]

Signature(userId, exp, secret) == <<secret, userId, exp>>

jwtSign(userId, secret, expiresIn) ==
    [userId |-> userId, exp |-> now + expiresIn,
     sig |-> Signature(userId, now + expiresIn, secret)]

\* jwt.decode: the payload, whatever the signature and the expiry; null
\* when the string is no token.
jwtDecode(token) ==
    IF token = MALFORMED THEN NULL ELSE [userId |-> token.userId, exp |-> token.exp]

\* What a token is signed over: the user id of an access token, the email
\* of a reset code.
Subject(token) == IF "email" \in DOMAIN token THEN token.email ELSE token.userId

\* The payload of a token: its fields but the signature.
Payload(token) == [f \in DOMAIN token \ {"sig"} |-> token[f]]

\* jwt.verify that does not look at the expiry.
jwtVerifyIgnoreExpiration(token, secret) ==
    IF token = MALFORMED THEN [error |-> "JsonWebTokenError"]
    ELSE IF token.sig # Signature(Subject(token), token.exp, secret)
         THEN [error |-> "JsonWebTokenError"]
    ELSE Payload(token)

\* jwt.verify: the payload, or the error it throws.
jwtVerify(token, secret) ==
    IF token = MALFORMED THEN [error |-> "JsonWebTokenError"]
    ELSE IF token.sig # Signature(Subject(token), token.exp, secret)
         THEN [error |-> "JsonWebTokenError"]
    ELSE IF now >= token.exp THEN [error |-> "TokenExpiredError"]
    ELSE Payload(token)

isJwtError(v) == "error" \in DOMAIN v

\* getAccessToken signing with another secret than the one tokens are verified with.
getAccessTokenOtherSecret(userId) == jwtSign(userId, "", ACCESS_TOKEN_TTL)

\* getAccessToken(userId), line 60.
getAccessToken(userId) == jwtSign(userId, JWT_SECRET, ACCESS_TOKEN_TTL)

\* A token signed for userId at some instant.
SignedAt(userId, instant) ==
    [userId |-> userId, exp |-> instant + ACCESS_TOKEN_TTL,
     sig |-> Signature(userId, instant + ACCESS_TOKEN_TTL, JWT_SECRET)]

\* The signed tokens a request is tried with. getNewAccessToken signs a
\* token for whatever user id the string it is sent decodes to, so at every
\* instant a caller can have a token signed for any id: the tokens tried
\* are those of every id, signed now and signed at the first instant.
SignedTokens == { SignedAt(id, t) : id \in UserIds, t \in {0, now} }

\* A token signed now with its payload altered (the next id in place of
\* the signed one) or its signature altered: the signature is not the one
\* of the payload.
Tampered(token) ==
    { [token EXCEPT !.userId = (token.userId % MaxUsers) + 1],
      [token EXCEPT !.sig = Signature(token.userId, token.exp, "forged")] }

\* What a caller can send as an access token: a signed token, a tampered
\* one, or a string that is no token.
AccessTokenInputs ==
    SignedTokens \cup UNION { Tampered(SignedAt(id, now)) : id \in UserIds }
        \cup {MALFORMED}

\* A request field that is absent or empty.
MISSING == [missing |-> TRUE]

\* What a caller can send as a refresh token: a value drawn so far, or 0,
\* a value never drawn.
RefreshTokenInputs == 0..issued

----------------------------------------------------------------------------
\* The tables.

\* UserTable.findOne({ where: { email } })
findUserByEmail(email) ==
    IF \E u \in users : u.email = email
    THEN CHOOSE u \in users : u.email = email
    ELSE NULL

\* UserTable.findOne({ where: { id } })
findUserById(id) ==
    IF \E u \in users : u.id = id THEN CHOOSE u \in users : u.id = id ELSE NULL

\* A unique constraint on email only.
uniqueViolationEmailOnly(email, name) ==
    \E u \in users : u.email = email

\* The unique constraints of UserTable on email and name.
uniqueViolation(email, name) ==
    \E u \in users : u.email = email \/ u.name = name

\* The same constraints when the row of id is updated: the other rows count.
uniqueViolationOnUpdate(id, email, name) ==
    /\ \E u \in users : u.id = id
    /\ \E u \in users : u.id # id /\ (u.email = email \/ u.name = name)

tokensOf(userId) == { r \in refreshTokens : r.userId = userId }

\* RefreshTokenTable.count({ where: { userId } })
countRefreshTokens(userId) == Cardinality(tokensOf(userId))

\* RefreshTokenTable.findOne({ where: { refreshToken, userId } })
findRefreshToken(refreshToken, userId) ==
    IF \E r \in refreshTokens : r.refreshToken = refreshToken /\ r.userId = userId
    THEN CHOOSE r \in refreshTokens : r.refreshToken = refreshToken /\ r.userId = userId
    ELSE NULL

\* The rows findOne({ where: { userId }, order: [["expiration", "DESC"]] })
\* may return: a row of the user with the latest expiration.
newestRefreshTokens(userId) ==
    { r \in tokensOf(userId) : \A q \in tokensOf(userId) : q.expiration <= r.expiration }

\* A call that returns a Promise, used without await: the caller holds the
\* Promise object, not the value it resolves to.
Promise(value) == [promise |-> value]

\* JavaScript's !x for the values above: only null is falsy.
Falsy(value) == value = NULL

----------------------------------------------------------------------------
\* The response of tryCatchHandler: 200 with what the handler returns, the
\* status and message of a thrown HttpError, the default code and message
\* for any other Error, or 500 and the default message for a thrown value
\* that is no Error.

Returned(msg, data) == [kind |-> "return", msg |-> msg, data |-> data]
HttpError(msg, status) == [kind |-> "HttpError", msg |-> msg, status |-> status]
Error == [kind |-> "Error"]
NoData == [none |-> TRUE]

\* tryCatchHandler answering 401 for any Error, whatever code the handler names.
tryCatchHandlerFixedCode(outcome, defaultErrorCode, defaultErrorMsg) ==
    IF outcome.kind = "return"
    THEN [status |-> 200, msg |-> outcome.msg, data |-> outcome.data]
    ELSE IF outcome.kind = "HttpError"
    THEN [status |-> outcome.status, msg |-> outcome.msg, data |-> NoData]
    ELSE [status |-> IF outcome.kind = "Error" THEN 401 ELSE 500,
          msg |-> defaultErrorMsg, data |-> NoData]

\* tryCatchHandler answering with the message of whatever was thrown.
tryCatchHandlerLeaky(outcome, defaultErrorCode, defaultErrorMsg) ==
    IF outcome.kind = "return"
    THEN [status |-> 200, msg |-> outcome.msg, data |-> outcome.data]
    ELSE IF outcome.kind = "HttpError"
    THEN [status |-> outcome.status, msg |-> outcome.msg, data |-> NoData]
    ELSE [status |-> IF outcome.kind = "Error" THEN defaultErrorCode ELSE 500,
          msg |-> IF "msg" \in DOMAIN outcome THEN outcome.msg ELSE defaultErrorMsg,
          data |-> NoData]

\* tryCatchHandler, line 1041.
tryCatchHandler(outcome, defaultErrorCode, defaultErrorMsg) ==
    IF outcome.kind = "return"
    THEN [status |-> 200, msg |-> outcome.msg, data |-> outcome.data]
    ELSE IF outcome.kind = "HttpError"
    THEN [status |-> outcome.status, msg |-> outcome.msg, data |-> NoData]
    ELSE [status |-> IF outcome.kind = "Error" THEN defaultErrorCode ELSE 500,
          msg |-> defaultErrorMsg, data |-> NoData]

DefaultErrorCode == 401
DefaultErrorMsg == "An unexpected error occurred"

Respond(op, req, response) ==
    res' = [op |-> op, req |-> req, status |-> response.status,
            msg |-> response.msg, data |-> response.data]

----------------------------------------------------------------------------
\* getPswdValidities(name, email, pswd) of shared/utils: one flag per rule.
getPswdValidities(name, email, pswd) ==
    [pswdLen |-> pswd.pswdLen,
     nameOrEmail |-> name \notin pswd.partOf /\ email \notin pswd.partOf,
     ul |-> pswd.ul, ll |-> pswd.ll, nums |-> pswd.nums, specChars |-> pswd.specChars]

\* isPswdValid asking for one rule to pass, not for all of them.
isPswdValidAny(name, email, pswd) ==
    LET v == getPswdValidities(name, email, pswd)
    IN  v.pswdLen \/ v.nameOrEmail \/ v.ul \/ v.ll \/ v.nums \/ v.specChars

\* isPswdValid(name, email, pswd), line 50.
isPswdValid(name, email, pswd) ==
    LET v == getPswdValidities(name, email, pswd)
    IN  v.pswdLen /\ v.nameOrEmail /\ v.ul /\ v.ll /\ v.nums /\ v.specChars

----------------------------------------------------------------------------
\* History.

NoRun == [len |-> 0, created |-> 0, start |-> 0, lastCreated |-> FALSE]

\* The rows of userId are destroyed by handler `by`; the user's run of logins ends.
Revoke(userId, by) ==
    /\ revoked' = revoked \cup
           { [userId |-> r.userId, refreshToken |-> r.refreshToken, by |-> by] :
               r \in tokensOf(userId) }
    /\ run' = [run EXCEPT ![userId] = NoRun]

\* One more successful login of userId, which created a row or did not.
CountLogin(userId, created) ==
    run' = [run EXCEPT ![userId] =
               [len |-> @.len + 1,
                created |-> @.created + (IF created THEN 1 ELSE 0),
                start |-> IF @.len = 0 THEN countRefreshTokens(userId) ELSE @.start,
                lastCreated |-> created]]

----------------------------------------------------------------------------
\* createRefreshToken(userId), line 96: a fresh value, a row that expires
\* in 30 days.
newRefreshToken == issued + 1

createRefreshToken(userId) ==
    /\ refreshTokens' = refreshTokens \cup
          { [userId |-> userId, refreshToken |-> newRefreshToken,
             expiration |-> now + REFRESH_TOKEN_EXPIRATION] }
    /\ issued' = issued + 1

----------------------------------------------------------------------------
\* getNewAccessToken that rotates: a new refresh-token row on success.
getNewAccessTokenRotating(accessToken, refreshToken) ==
    LET req == [accessToken |-> accessToken, refreshToken |-> refreshToken]
        decoded == jwtDecode(accessToken)
        reply(outcome) ==
            Respond("getNewAccessToken", req,
                tryCatchHandler(outcome, DefaultErrorCode, DefaultErrorMsg))
    IN  /\ IF decoded = NULL
           THEN /\ reply(Error)
                /\ UNCHANGED <<refreshTokens, issued>>
           ELSE /\ createRefreshToken(decoded.userId)
                /\ reply(Returned("Successfully renewed refresh token",
                       getAccessToken(decoded.userId)))
        /\ UNCHANGED <<users, nextId, now, ticks, revoked, run>>
        /\ UNCHANGED <<generated, codes, deleted>>
        /\ UNCHANGED <<server, pending>>

\* getNewAccessToken that looks the user up and refuses a blocked one.
getNewAccessTokenStanding(accessToken, refreshToken) ==
    LET req == [accessToken |-> accessToken, refreshToken |-> refreshToken]
        decoded == jwtDecode(accessToken)
        user == IF decoded = NULL THEN NULL ELSE findUserById(decoded.userId)
        reply(outcome) ==
            Respond("getNewAccessToken", req,
                tryCatchHandler(outcome, DefaultErrorCode, DefaultErrorMsg))
    IN  /\ IF decoded = NULL
           THEN reply(Error)
           ELSE IF user = NULL \/ user.isBlocked
           THEN reply(HttpError("Invalid refresh token.", 401))
           ELSE reply(Returned("Successfully renewed refresh token",
                    getAccessToken(decoded.userId)))
        /\ UNCHANGED <<users, nextId, refreshTokens, issued, now, ticks, revoked, run>>
        /\ UNCHANGED <<generated, codes, deleted>>
        /\ UNCHANGED <<server, pending>>

\* getNewAccessToken, line 76.
getNewAccessToken(accessToken, refreshToken) ==
    LET req == [accessToken |-> accessToken, refreshToken |-> refreshToken]
        decoded == jwtDecode(accessToken)
    IN  /\ IF decoded = NULL
           THEN \* destructuring null throws a TypeError
                /\ Respond("getNewAccessToken", req,
                       tryCatchHandler(Error, DefaultErrorCode, DefaultErrorMsg))
           ELSE LET userId == decoded.userId
                    \* findOne is called without await
                    refreshTokenInDb == Promise(findRefreshToken(refreshToken, userId))
                IN  IF Falsy(refreshTokenInDb)
                    THEN /\ Respond("getNewAccessToken", req,
                                tryCatchHandler(HttpError("Invalid refresh token.", 401),
                                    DefaultErrorCode, DefaultErrorMsg))
                    ELSE /\ Respond("getNewAccessToken", req,
                                tryCatchHandler(
                                    Returned("Successfully renewed refresh token",
                                        getAccessToken(userId)),
                                    DefaultErrorCode, DefaultErrorMsg))
        /\ UNCHANGED <<users, nextId, refreshTokens, issued, now, ticks, revoked, run>>
        /\ UNCHANGED <<generated, codes, deleted>>
        /\ UNCHANGED <<server, pending>>

----------------------------------------------------------------------------
\* createUser, line 126: userCount >= 4_294_967_295, which is 65536 * 65536 - 1.
userLimitReached(userCount) == (userCount + 1) \div WORD16 >= WORD16

\* createUser, line 123.
createUser(email, name, password) ==
    LET req == [email |-> email, name |-> name, password |-> password]
        userCount == Cardinality(users)
        fail(outcome) ==
            /\ Respond("createUser", req,
                   tryCatchHandler(outcome, 409, "Email or name already taken."))
            /\ UNCHANGED <<users, nextId, refreshTokens, issued, run>>
    IN  /\ IF userLimitReached(userCount)
           THEN fail(HttpError("User limit reached.", 403))
           ELSE IF password.len > MAX_PSWD_LEN
           THEN fail(HttpError("Password too long.", 400))
           ELSE IF ~isPswdValid(name, email, password)
           THEN fail(HttpError("Invalid password.", 400))
           ELSE IF uniqueViolation(email, name)
           THEN \* UserTable.create throws the constraint's error
                fail(Error)
           ELSE LET user == [id |-> nextId, email |-> email, name |-> name,
                             pswdHash |-> bcryptHash(password), isBlocked |-> FALSE]
                    accessToken == getAccessToken(user.id)
                IN  /\ users' = users \cup {user}
                    /\ nextId' = nextId + 1
                    /\ createRefreshToken(user.id)
                    /\ run' = [run EXCEPT ![user.id] = NoRun]
                    /\ Respond("createUser", req,
                           tryCatchHandler(
                               Returned("User created successfully.",
                                   [id |-> user.id, accessToken |-> accessToken,
                                    refreshToken |-> newRefreshToken]),
                               409, "Email or name already taken."))
        /\ UNCHANGED <<now, ticks, revoked, generated, codes, deleted>>
        /\ UNCHANGED <<server, pending>>

----------------------------------------------------------------------------
\* logInUser, lines 168-174: what the handler throws before it issues
\* anything, if it throws.
NoError == [kind |-> "none"]

\* loginCheck without the isBlocked test.
loginCheckNoBlock(user, isMatch) ==
    IF ~isMatch \/ user = NULL THEN HttpError("Invalid credentials.", 401) ELSE NoError

\* loginCheck telling an unknown email from a wrong password.
loginCheckLeaky(user, isMatch) ==
    IF user = NULL
    THEN HttpError("No such user with that email", 404)
    ELSE IF ~isMatch
    THEN HttpError("Invalid credentials.", 401)
    ELSE IF user.isBlocked
    THEN HttpError("This account has been blocked. Please contact the admin.", 401)
    ELSE NoError

\* loginCheck with the test of the match inverted.
loginCheckInverted(user, isMatch) ==
    IF isMatch \/ user = NULL
    THEN HttpError("Invalid credentials.", 401)
    ELSE IF user.isBlocked
    THEN HttpError("This account has been blocked. Please contact the admin.", 401)
    ELSE NoError

\* loginCheck testing the block before the match.
loginCheckBlockedFirst(user, isMatch) ==
    IF user # NULL /\ user.isBlocked
    THEN HttpError("This account has been blocked. Please contact the admin.", 401)
    ELSE IF ~isMatch \/ user = NULL
    THEN HttpError("Invalid credentials.", 401)
    ELSE NoError

loginCheck(user, isMatch) ==
    IF ~isMatch \/ user = NULL
    THEN HttpError("Invalid credentials.", 401)
    ELSE IF user.isBlocked
    THEN HttpError("This account has been blocked. Please contact the admin.", 401)
    ELSE NoError

\* underCap comparing with <, and underCap one off.
underCapStrict(count) == count < REFRESH_TOKEN_CAP
underCapOneMore(count) == count <= REFRESH_TOKEN_CAP + 1

\* logInUser, line 183: a row is created only if the count does not exceed the cap.
underCap(count) == count <= REFRESH_TOKEN_CAP

\* logInUser, line 159.
logInUser(email, password) ==
    LET req == [email |-> email, password |-> password]
        user == findUserByEmail(email)
        isMatch == bcryptCompare(password,
                       IF user = NULL THEN EmptyHash ELSE user.pswdHash)
        thrown == loginCheck(user, isMatch)
        reply(outcome) ==
            Respond("logInUser", req,
                tryCatchHandler(outcome, DefaultErrorCode, DefaultErrorMsg))
    IN  /\ IF thrown # NoError
           THEN /\ reply(thrown)
                /\ UNCHANGED <<refreshTokens, issued, run>>
           ELSE LET accessToken == getAccessToken(user.id)
                    count == countRefreshTokens(user.id)
                    data(refreshToken) ==
                        [id |-> user.id, name |-> user.name,
                         accessToken |-> accessToken, refreshToken |-> refreshToken]
                IN  IF underCap(count)
                    THEN /\ createRefreshToken(user.id)
                         /\ CountLogin(user.id, TRUE)
                         /\ reply(Returned("Logged in successfully.",
                                data(newRefreshToken)))
                    ELSE IF newestRefreshTokens(user.id) = {}
                    THEN /\ reply(Error)
                         /\ UNCHANGED <<refreshTokens, issued, run>>
                    ELSE \E refreshTokenRow \in newestRefreshTokens(user.id) :
                         /\ CountLogin(user.id, FALSE)
                         /\ reply(Returned("Logged in successfully.",
                                data(refreshTokenRow.refreshToken)))
                         /\ UNCHANGED <<refreshTokens, issued>>
        /\ UNCHANGED <<users, nextId, now, ticks, revoked, generated, codes, deleted>>
        /\ UNCHANGED <<server, pending>>

----------------------------------------------------------------------------
\* logOutUser destroying the refresh tokens of every user.
logOutUserAll(accessToken) ==
    LET req == [accessToken |-> accessToken]
        verified == jwtVerify(accessToken, JWT_SECRET)
    IN  /\ IF isJwtError(verified)
           THEN /\ Respond("logOutUser", req, tryCatchHandler(Error, 403, "Invalid user"))
                /\ UNCHANGED <<refreshTokens, revoked, run>>
           ELSE /\ refreshTokens' = {}
                /\ Revoke(verified.userId, "logOutUser")
                /\ Respond("logOutUser", req,
                       tryCatchHandler(Returned("Logged out successfully.", TRUE),
                           403, "Invalid user"))
        /\ UNCHANGED <<users, nextId, issued, now, ticks, generated, codes, deleted>>
        /\ UNCHANGED <<server, pending>>

\* logOutUser, line 205.
logOutUser(accessToken) ==
    LET req == [accessToken |-> accessToken]
        verified == jwtVerify(accessToken, JWT_SECRET)
    IN  /\ IF isJwtError(verified)
           THEN /\ Respond("logOutUser", req, tryCatchHandler(Error, 403, "Invalid user"))
                /\ UNCHANGED <<refreshTokens, revoked, run>>
           ELSE /\ refreshTokens' = refreshTokens \ tokensOf(verified.userId)
                /\ Revoke(verified.userId, "logOutUser")
                /\ Respond("logOutUser", req,
                       tryCatchHandler(Returned("Logged out successfully.", TRUE),
                           403, "Invalid user"))
        /\ UNCHANGED <<users, nextId, issued, now, ticks, generated, codes, deleted>>
        /\ UNCHANGED <<server, pending>>

----------------------------------------------------------------------------
\* updatePswd that leaves the refresh tokens of the user.
updatePswdKeepTokens(userId, newPassword) ==
    /\ users' = { IF u.id = userId
                  THEN [u EXCEPT !.pswdHash = bcryptHash(newPassword)]
                  ELSE u : u \in users }
    /\ UNCHANGED <<refreshTokens, revoked, run>>

\* updatePswd(userId, newPassword), line 384: the new hash, then every
\* refresh token of the user destroyed.
updatePswd(userId, newPassword) ==
    /\ users' = { IF u.id = userId
                  THEN [u EXCEPT !.pswdHash = bcryptHash(newPassword)]
                  ELSE u : u \in users }
    /\ refreshTokens' = refreshTokens \ tokensOf(userId)
    /\ Revoke(userId, "updatePswd")

\* changePassword, line 283.
changePassword(accessToken, oldPassword, newPassword) ==
    LET req == [accessToken |-> accessToken, oldPassword |-> oldPassword,
                newPassword |-> newPassword]
        verified == jwtVerify(accessToken, JWT_SECRET)
        user == IF isJwtError(verified) THEN NULL ELSE findUserById(verified.userId)
        fail(outcome) ==
            /\ Respond("changePassword", req,
                   tryCatchHandler(outcome, 404, "User not found"))
            /\ UNCHANGED <<users, refreshTokens, revoked, run>>
    IN  /\ IF isJwtError(verified)
           THEN fail(Error)
           ELSE IF user = NULL
           THEN fail(Error)
           ELSE IF ~bcryptCompare(oldPassword, user.pswdHash)
           THEN fail(HttpError("Invalid old password.", 401))
           ELSE IF ~isPswdValid(user.name, user.email, newPassword)
           THEN fail(HttpError("Invalid new password.", 403))
           ELSE /\ updatePswd(verified.userId, newPassword)
                /\ Respond("changePassword", req,
                       tryCatchHandler(Returned("Password updated successfully.", TRUE),
                           404, "User not found"))
        /\ UNCHANGED <<nextId, issued, now, ticks, generated, codes, deleted>>
        /\ UNCHANGED <<server, pending>>

----------------------------------------------------------------------------
\* validateString(paramName) of config/validators: a field that is absent
\* or empty is answered 403 "Invalid string" and the handler is not called.
\* (The sanitizer replaces only < and >, which no token, code or generated
\* password contains.)
validateString(value) == value # MISSING

InvalidString == [status |-> 403, msg |-> "Invalid string", data |-> NoData]

----------------------------------------------------------------------------
\* POST /logout: validateString("accessToken"), then logOutUser.
postLogout(accessToken) ==
    IF validateString(accessToken)
    THEN logOutUser(accessToken)
    ELSE /\ Respond("logOutUser", [accessToken |-> accessToken], InvalidString)
         /\ UNCHANGED <<users, nextId, refreshTokens, issued, now, ticks, revoked, run>>
         /\ UNCHANGED <<generated, codes, deleted>>
         /\ UNCHANGED <<server, pending>>

----------------------------------------------------------------------------
\* deleteUser that leaves the refresh tokens of the user.
deleteUserKeepTokens(accessToken) ==
    LET req == [accessToken |-> accessToken]
        verified == jwtVerify(accessToken, JWT_SECRET)
    IN  /\ IF isJwtError(verified)
           THEN /\ Respond("deleteUser", req, tryCatchHandler(Error, 403, "Invalid user"))
                /\ UNCHANGED <<users, refreshTokens, revoked, run, deleted>>
           ELSE /\ UNCHANGED <<refreshTokens, revoked, run>>
                /\ users' = { u \in users : u.id # verified.userId }
                /\ deleted' = deleted \cup
                       { [id |-> u.id, email |-> u.email] :
                           u \in { v \in users : v.id = verified.userId } }
                /\ Respond("deleteUser", req,
                       tryCatchHandler(Returned("User deleted successfully.", NoData),
                           403, "Invalid user"))
        /\ UNCHANGED <<nextId, issued, now, ticks, generated, codes>>
        /\ UNCHANGED <<server, pending>>

\* deleteUser, line 228: the refresh tokens of the user destroyed, then the
\* user row.
deleteUser(accessToken) ==
    LET req == [accessToken |-> accessToken]
        verified == jwtVerify(accessToken, JWT_SECRET)
    IN  /\ IF isJwtError(verified)
           THEN /\ Respond("deleteUser", req, tryCatchHandler(Error, 403, "Invalid user"))
                /\ UNCHANGED <<users, refreshTokens, revoked, run, deleted>>
           ELSE /\ refreshTokens' = refreshTokens \ tokensOf(verified.userId)
                /\ Revoke(verified.userId, "deleteUser")
                /\ users' = { u \in users : u.id # verified.userId }
                /\ deleted' = deleted \cup
                       { [id |-> u.id, email |-> u.email] :
                           u \in { v \in users : v.id = verified.userId } }
                /\ Respond("deleteUser", req,
                       tryCatchHandler(Returned("User deleted successfully.", NoData),
                           403, "Invalid user"))
        /\ UNCHANGED <<nextId, issued, now, ticks, generated, codes>>
        /\ UNCHANGED <<server, pending>>

\* POST /deleteUser: validateString("accessToken"), then deleteUser.
postDeleteUser(accessToken) ==
    IF validateString(accessToken)
    THEN deleteUser(accessToken)
    ELSE /\ Respond("deleteUser", [accessToken |-> accessToken], InvalidString)
         /\ UNCHANGED <<users, nextId, refreshTokens, issued, now, ticks, revoked, run>>
         /\ UNCHANGED <<generated, codes, deleted>>
         /\ UNCHANGED <<server, pending>>

----------------------------------------------------------------------------
\* checkOldPswd returning false for a password that does not match.
checkOldPswdReturnsFalse(accessToken, oldPassword) ==
    LET req == [accessToken |-> accessToken, oldPassword |-> oldPassword]
        verified == jwtVerify(accessToken, JWT_SECRET)
        user == IF isJwtError(verified) THEN NULL ELSE findUserById(verified.userId)
        reply(outcome) ==
            Respond("checkOldPswd", req,
                tryCatchHandler(outcome, 404, "Old password is incorrect."))
    IN  /\ IF isJwtError(verified)
           THEN reply(Error)
           ELSE IF user = NULL
           THEN reply(Error)
           ELSE IF ~bcryptCompare(oldPassword, user.pswdHash)
           THEN reply(Returned("Old password is incorrect.", FALSE))
           ELSE reply(Returned("Old password is correct.", TRUE))
        /\ UNCHANGED <<users, nextId, refreshTokens, issued, now, ticks, revoked, run>>
        /\ UNCHANGED <<generated, codes, deleted>>
        /\ UNCHANGED <<server, pending>>

\* checkOldPswd, line 248.
checkOldPswd(accessToken, oldPassword) ==
    LET req == [accessToken |-> accessToken, oldPassword |-> oldPassword]
        verified == jwtVerify(accessToken, JWT_SECRET)
        user == IF isJwtError(verified) THEN NULL ELSE findUserById(verified.userId)
        reply(outcome) ==
            Respond("checkOldPswd", req,
                tryCatchHandler(outcome, 404, "Old password is incorrect."))
    IN  /\ IF isJwtError(verified)
           THEN reply(Error)
           ELSE IF user = NULL
           THEN reply(Error)
           ELSE IF ~bcryptCompare(oldPassword, user.pswdHash)
           THEN reply(HttpError("Invalid old password.", 401))
           ELSE reply(Returned("Old password is correct.", TRUE))
        /\ UNCHANGED <<users, nextId, refreshTokens, issued, now, ticks, revoked, run>>
        /\ UNCHANGED <<generated, codes, deleted>>
        /\ UNCHANGED <<server, pending>>

----------------------------------------------------------------------------
\* Reset codes: a code is a token signed over an email, for 5 minutes.

\* jwtSignEmail signing for the time an access token is valid for.
jwtSignEmailOneHour(email, secret, expiresIn) ==
    [email |-> email, exp |-> now + ACCESS_TOKEN_TTL,
     sig |-> Signature(email, now + ACCESS_TOKEN_TTL, secret)]

\* jwt.sign({ email }, secret, { expiresIn }), lines 336-338.
jwtSignEmail(email, secret, expiresIn) ==
    [email |-> email, exp |-> now + expiresIn,
     sig |-> Signature(email, now + expiresIn, secret)]

IssuedCodes == { c.code : c \in codes }

usesOf(code) ==
    IF code \in IssuedCodes THEN (CHOOSE c \in codes : c.code = code).uses ELSE 0

\* The code was issued once more, to the user whose email it carries, or
\* redeemed once more.
Issue(code, userId) ==
    codes' = IF \E c \in codes : c.code = code /\ c.userId = userId THEN codes
             ELSE codes \cup { [code |-> code, userId |-> userId,
                                uses |-> usesOf(code)] }
Redeem(code) ==
    codes' = { IF c.code = code THEN [c EXCEPT !.uses = IF @ < 2 THEN @ + 1 ELSE 2]
               ELSE c : c \in codes }

\* A code with its email or its signature altered.
TamperedCode(code) ==
    { [code EXCEPT !.email = e] : e \in Emails \ {code.email} }
        \cup { [code EXCEPT !.sig = Signature(code.email, code.exp, "forged")] }

\* What a caller can send as a code: a code that was issued, a tampered
\* one, a string that is no token, or an access token.
CodeInputs ==
    IssuedCodes \cup UNION { TamperedCode(code) : code \in IssuedCodes }
        \cup {MALFORMED, SignedAt(1, now)}

\* getForgotPswdCode, line 322.
getForgotPswdCode(email) ==
    LET req == [email |-> email]
        user == findUserByEmail(email)
        reply(outcome) ==
            Respond("getForgotPswdCode", req,
                tryCatchHandler(outcome, 404, "No such user with that email"))
    IN  /\ IF user = NULL
           THEN /\ reply(Error)
                /\ UNCHANGED codes
           ELSE LET code == jwtSignEmail(email, JWT_SECRET, RESET_CODE_TTL)
                IN  /\ Issue(code, user.id)
                    /\ reply(Returned("Code sent successfully.", code))
        /\ UNCHANGED <<users, nextId, refreshTokens, issued, now, ticks, revoked, run>>
        /\ UNCHANGED <<generated, deleted>>
        /\ UNCHANGED <<server, pending>>

\* crypto.randomBytes(8).toString("base64"): 12 characters never drawn
\* before; what getPswdValidities finds in them is open.
GeneratedPswd(n) ==
    [text |-> "random" \o ToString(n), len |-> GENERATED_PSWD_LEN, pswdLen |-> TRUE,
     ul |-> TRUE, ll |-> TRUE, nums |-> TRUE, specChars |-> TRUE, partOf |-> {}]

\* codeError testing for JsonWebTokenError first, which a TokenExpiredError is too.
codeErrorSubclassFirst(verified) ==
    IF verified.error \in {"JsonWebTokenError", "TokenExpiredError"}
    THEN HttpError("Invalid code", 401)
    ELSE HttpError("An unexpecteed error occurred in code verification", 500)

\* forgotPswd, lines 353-370: what the handler throws for what jwt.verify throws.
codeError(verified) ==
    IF verified.error = "TokenExpiredError" THEN HttpError("Code has expired", 403)
    ELSE IF verified.error = "JsonWebTokenError" THEN HttpError("Invalid code", 401)
    ELSE HttpError("An unexpecteed error occurred in code verification", 500)

\* UserTable.findOne({ where: { email } }) when the payload has no email:
\* the query is refused with an error, or it matches no row.
UndefinedEmailOutcomes == { Error, HttpError("User doesn't exist anymore", 404) }

\* forgotPswd that redeems a code once only.
forgotPswdOnce(code) ==
    LET req == [code |-> code]
        verified == jwtVerify(code, JWT_SECRET)
        reply(outcome) ==
            Respond("forgotPswd", req, tryCatchHandler(outcome, 403, "Code has expired."))
        fail(outcome) ==
            /\ reply(outcome)
            /\ UNCHANGED <<users, refreshTokens, revoked, run, generated, codes>>
    IN  /\ IF isJwtError(verified)
           THEN fail(codeError(verified))
           ELSE IF "email" \notin DOMAIN verified
           THEN \E outcome \in UndefinedEmailOutcomes : fail(outcome)
           ELSE IF usesOf(code) > 0
           THEN fail(HttpError("Invalid code", 401))
           ELSE LET user == findUserByEmail(verified.email)
                    newPassword == GeneratedPswd(generated + 1)
                IN  IF user = NULL
                    THEN fail(HttpError("User doesn't exist anymore", 404))
                    ELSE /\ generated' = generated + 1
                         /\ updatePswd(user.id, newPassword)
                         /\ Redeem(code)
                         /\ reply(Returned("Password updated successfully.", newPassword))
        /\ UNCHANGED <<nextId, issued, now, ticks, deleted>>
        /\ UNCHANGED <<server, pending>>

\* forgotPswd, line 346.
forgotPswd(code) ==
    LET req == [code |-> code]
        verified == jwtVerify(code, JWT_SECRET)
        reply(outcome) ==
            Respond("forgotPswd", req, tryCatchHandler(outcome, 403, "Code has expired."))
        fail(outcome) ==
            /\ reply(outcome)
            /\ UNCHANGED <<users, refreshTokens, revoked, run, generated, codes>>
    IN  /\ IF isJwtError(verified)
           THEN fail(codeError(verified))
           ELSE IF "email" \notin DOMAIN verified
           THEN \E outcome \in UndefinedEmailOutcomes : fail(outcome)
           ELSE LET user == findUserByEmail(verified.email)
                    newPassword == GeneratedPswd(generated + 1)
                IN  IF user = NULL
                    THEN fail(HttpError("User doesn't exist anymore", 404))
                    ELSE /\ generated' = generated + 1
                         /\ updatePswd(user.id, newPassword)
                         /\ Redeem(code)
                         /\ reply(Returned("Password updated successfully.", newPassword))
        /\ UNCHANGED <<nextId, issued, now, ticks, deleted>>
        /\ UNCHANGED <<server, pending>>

----------------------------------------------------------------------------
\* Steps that are no request: the administrator sets or clears a user's
\* isBlocked flag; time passes.

NoRequest == [op |-> "none", req |-> NoData, status |-> 0, msg |-> "", data |-> NoData]

setBlocked(id, isBlocked) ==
    /\ users' = { IF u.id = id THEN [u EXCEPT !.isBlocked = isBlocked] ELSE u :
                    u \in users }
    /\ res' = NoRequest
    /\ UNCHANGED <<nextId, refreshTokens, issued, now, ticks, revoked, run>>
    /\ UNCHANGED <<generated, codes, deleted>>
    /\ UNCHANGED <<server, pending>>

TickSteps == {ACCESS_TOKEN_TTL}

advanceClock(minutes) ==
    /\ now' = now + minutes
    /\ ticks' = ticks + 1
    /\ res' = NoRequest
    /\ UNCHANGED <<users, nextId, refreshTokens, issued, revoked, run>>
    /\ UNCHANGED <<generated, codes, deleted>>
    /\ UNCHANGED <<server, pending>>

----------------------------------------------------------------------------
\* updateBasicUserInfo, line 784: the name and the email of the token's
\* user are replaced; the constraint's error is answered as any Error.
updateBasicUserInfo(accessToken, name, email) ==
    LET req == [accessToken |-> accessToken, name |-> name, email |-> email]
        verified == jwtVerify(accessToken, JWT_SECRET)
        reply(outcome) ==
            Respond("updateBasicUserInfo", req,
                tryCatchHandler(outcome, 404, "User not found."))
    IN  /\ IF isJwtError(verified)
           THEN /\ reply(Error)
                /\ UNCHANGED users
           ELSE IF uniqueViolationOnUpdate(verified.userId, email, name)
           THEN /\ reply(Error)
                /\ UNCHANGED users
           ELSE /\ users' = { IF u.id = verified.userId
                              THEN [u EXCEPT !.name = name, !.email = email]
                              ELSE u : u \in users }
                /\ reply(Returned("User updated successfully.", NoData))
        /\ UNCHANGED <<nextId, refreshTokens, issued, now, ticks, revoked, run>>
        /\ UNCHANGED <<generated, codes, deleted>>
        /\ UNCHANGED <<server, pending>>

----------------------------------------------------------------------------
\* A request in flight: a handler is suspended at each await, and other
\* requests run meanwhile. A signup is suspended between its checks and
\* UserTable.create; a login between its checks and its use of the
\* refresh-token table.

\* A count of rows as two 16-bit words, high and low: UserTable.count() can
\* return more than one integer of the checker holds.
Words(n) == [hi |-> n \div WORD16, lo |-> n % WORD16]

\* 4_294_967_295, line 126.
USER_LIMIT == [hi |-> WORD16 - 1, lo |-> WORD16 - 1]

\* createUser, line 126: userCount >= 4_294_967_295, on words.
userLimitReachedWords(userCount) ==
    \/ userCount.hi > USER_LIMIT.hi
    \/ userCount.hi = USER_LIMIT.hi /\ userCount.lo >= USER_LIMIT.lo

\* createUserChecksAt without the test of the length.
createUserChecksAtNoLength(userCount, email, name, password) ==
    LET req == [email |-> email, name |-> name, password |-> password,
                userCount |-> userCount]
        fail(outcome) ==
            /\ Respond("createUser", req,
                   tryCatchHandler(outcome, 409, "Email or name already taken."))
            /\ UNCHANGED pending
    IN  /\ IF userLimitReachedWords(userCount)
           THEN fail(HttpError("User limit reached.", 403))
           ELSE IF ~isPswdValid(name, email, password)
           THEN fail(HttpError("Invalid password.", 400))
           ELSE /\ pending' = pending \cup
                       { [op |-> "createUser", req |-> req,
                          pswdHash |-> bcryptHash(password)] }
                /\ res' = NoRequest
        /\ UNCHANGED <<users, nextId, refreshTokens, issued, now, ticks, revoked, run>>
        /\ UNCHANGED <<generated, codes, deleted, server>>

\* createUser, lines 125-141, for a table of userCount rows: the test of
\* the count, the tests of the password, the hash. (The request is kept
\* with the count that was read for it.)
createUserChecksAt(userCount, email, name, password) ==
    LET req == [email |-> email, name |-> name, password |-> password,
                userCount |-> userCount]
        fail(outcome) ==
            /\ Respond("createUser", req,
                   tryCatchHandler(outcome, 409, "Email or name already taken."))
            /\ UNCHANGED pending
    IN  /\ IF userLimitReachedWords(userCount)
           THEN fail(HttpError("User limit reached.", 403))
           ELSE IF password.len > MAX_PSWD_LEN
           THEN fail(HttpError("Password too long.", 400))
           ELSE IF ~isPswdValid(name, email, password)
           THEN fail(HttpError("Invalid password.", 400))
           ELSE /\ pending' = pending \cup
                       { [op |-> "createUser", req |-> req,
                          pswdHash |-> bcryptHash(password)] }
                /\ res' = NoRequest
        /\ UNCHANGED <<users, nextId, refreshTokens, issued, now, ticks, revoked, run>>
        /\ UNCHANGED <<generated, codes, deleted, server>>

\* createUser, lines 125-141: the count, the tests of the password, the hash.
createUserChecks(email, name, password) ==
    createUserChecksAt(Words(Cardinality(users)), email, name, password)

\* createUser, lines 143-150: UserTable.create, which the constraint may
\* refuse, then the tokens.
createUserInsert(p) ==
    LET reply(outcome) ==
            Respond("createUser", p.req,
                tryCatchHandler(outcome, 409, "Email or name already taken."))
    IN  /\ pending' = pending \ {p}
        /\ IF uniqueViolation(p.req.email, p.req.name)
           THEN /\ reply(Error)
                /\ UNCHANGED <<users, nextId, refreshTokens, issued, run>>
           ELSE LET user == [id |-> nextId, email |-> p.req.email, name |-> p.req.name,
                             pswdHash |-> p.pswdHash, isBlocked |-> FALSE]
                IN  /\ users' = users \cup {user}
                    /\ nextId' = nextId + 1
                    /\ createRefreshToken(user.id)
                    /\ run' = [run EXCEPT ![user.id] = NoRun]
                    /\ reply(Returned("User created successfully.",
                           [id |-> user.id, accessToken |-> getAccessToken(user.id),
                            refreshToken |-> newRefreshToken]))
        /\ UNCHANGED <<now, ticks, revoked, generated, codes, deleted, server>>

\* RefreshTokenTable holds userId as a reference that the table does not
\* enforce: a row can be created for an id that has no user row.
referenceEnforced == FALSE

\* logInUser, lines 161-176: the user row read, the password compared, the
\* block tested, the access token signed.
logInUserChecks(email, password) ==
    LET req == [email |-> email, password |-> password]
        user == findUserByEmail(email)
        isMatch == bcryptCompare(password,
                       IF user = NULL THEN EmptyHash ELSE user.pswdHash)
        thrown == loginCheck(user, isMatch)
    IN  /\ IF thrown # NoError
           THEN /\ Respond("logInUser", req,
                       tryCatchHandler(thrown, DefaultErrorCode, DefaultErrorMsg))
                /\ UNCHANGED pending
           ELSE /\ pending' = pending \cup
                       { [op |-> "logInUser", req |-> req, user |-> user,
                          accessToken |-> getAccessToken(user.id)] }
                /\ res' = NoRequest
        /\ UNCHANGED <<users, nextId, refreshTokens, issued, now, ticks, revoked, run>>
        /\ UNCHANGED <<generated, codes, deleted, server>>

\* logInUser, lines 179-200: the rows of the user that was read are
\* counted, and a row is created for its id or the newest one is reused.
logInUserIssue(p) ==
    LET user == p.user
        count == countRefreshTokens(user.id)
        reply(outcome) ==
            Respond("logInUser", p.req,
                tryCatchHandler(outcome, DefaultErrorCode, DefaultErrorMsg))
        data(refreshToken) ==
            [id |-> user.id, name |-> user.name,
             accessToken |-> p.accessToken, refreshToken |-> refreshToken]
    IN  /\ pending' = pending \ {p}
        /\ IF underCap(count)
           THEN IF referenceEnforced /\ findUserById(user.id) = NULL
                THEN /\ reply(Error)
                     /\ UNCHANGED <<refreshTokens, issued, run>>
                ELSE /\ createRefreshToken(user.id)
                     /\ CountLogin(user.id, TRUE)
                     /\ reply(Returned("Logged in successfully.", data(newRefreshToken)))
           ELSE IF newestRefreshTokens(user.id) = {}
           THEN /\ reply(Error)
                /\ UNCHANGED <<refreshTokens, issued, run>>
           ELSE \E refreshTokenRow \in newestRefreshTokens(user.id) :
                /\ CountLogin(user.id, FALSE)
                /\ reply(Returned("Logged in successfully.",
                       data(refreshTokenRow.refreshToken)))
                /\ UNCHANGED <<refreshTokens, issued>>
        /\ UNCHANGED <<users, nextId, now, ticks, revoked, generated, codes, deleted>>
        /\ UNCHANGED server

\* A login in three steps, for logins that overlap one another: each
\* occupies a slot, and is suspended after its checks and again after it
\* has read the count. (The count is used for nothing but the test of
\* line 183, so the request carries the outcome of that test.)

\* logInUser, lines 161-176, for the request in `slot`.
logInUserRead(slot, email, password) ==
    LET req == [email |-> email, password |-> password]
        user == findUserByEmail(email)
        isMatch == bcryptCompare(password,
                       IF user = NULL THEN EmptyHash ELSE user.pswdHash)
        thrown == loginCheck(user, isMatch)
    IN  /\ IF thrown # NoError
           THEN /\ Respond("logInUser", req,
                       tryCatchHandler(thrown, DefaultErrorCode, DefaultErrorMsg))
                /\ UNCHANGED pending
           ELSE /\ pending' = pending \cup
                       { [op |-> "logInUser", slot |-> slot, req |-> req, user |-> user,
                          accessToken |-> getAccessToken(user.id),
                          stage |-> "checked", underCap |-> FALSE] }
                /\ res' = NoRequest
        /\ UNCHANGED <<users, nextId, refreshTokens, issued, now, ticks, revoked, run>>
        /\ UNCHANGED <<generated, codes, deleted, server>>

\* logInUser, lines 179-183: RefreshTokenTable.count for the user that was read.
logInUserCount(p) ==
    /\ pending' = (pending \ {p}) \cup
           { [p EXCEPT !.stage = "counted",
                       !.underCap = underCap(countRefreshTokens(p.user.id))] }
    /\ res' = NoRequest
    /\ UNCHANGED <<users, nextId, refreshTokens, issued, now, ticks, revoked, run>>
    /\ UNCHANGED <<generated, codes, deleted, server>>

\* logInUser, lines 184-200: a row is created if the count that was read
\* did not exceed the cap, else the newest row is reused.
logInUserCreate(p) ==
    LET user == p.user
        reply(outcome) ==
            Respond("logInUser", p.req,
                tryCatchHandler(outcome, DefaultErrorCode, DefaultErrorMsg))
        data(refreshToken) ==
            [id |-> user.id, name |-> user.name,
             accessToken |-> p.accessToken, refreshToken |-> refreshToken]
    IN  /\ pending' = pending \ {p}
        /\ IF p.underCap
           THEN /\ createRefreshToken(user.id)
                /\ reply(Returned("Logged in successfully.", data(newRefreshToken)))
           ELSE IF newestRefreshTokens(user.id) = {}
           THEN /\ reply(Error)
                /\ UNCHANGED <<refreshTokens, issued>>
           ELSE \E refreshTokenRow \in newestRefreshTokens(user.id) :
                /\ reply(Returned("Logged in successfully.",
                       data(refreshTokenRow.refreshToken)))
                /\ UNCHANGED <<refreshTokens, issued>>
        /\ UNCHANGED <<users, nextId, now, ticks, revoked, run>>
        /\ UNCHANGED <<generated, codes, deleted, server>>

----------------------------------------------------------------------------
\* The handlers, with the default code and message each hands to
\* tryCatchHandler, and what a handler's function can end with: a result, a
\* thrown HttpError, another thrown Error (with its own text) or a thrown
\* value that is no Error.

Handlers ==
    { [op |-> "createUser", defaultErrorCode |-> 409,
       defaultErrorMsg |-> "Email or name already taken."],
      [op |-> "logInUser", defaultErrorCode |-> DefaultErrorCode,
       defaultErrorMsg |-> DefaultErrorMsg],
      [op |-> "logOutUser", defaultErrorCode |-> 403, defaultErrorMsg |-> "Invalid user"],
      [op |-> "deleteUser", defaultErrorCode |-> 403, defaultErrorMsg |-> "Invalid user"],
      [op |-> "checkOldPswd", defaultErrorCode |-> 404,
       defaultErrorMsg |-> "Old password is incorrect."],
      [op |-> "changePassword", defaultErrorCode |-> 404,
       defaultErrorMsg |-> "User not found"],
      [op |-> "getForgotPswdCode", defaultErrorCode |-> 404,
       defaultErrorMsg |-> "No such user with that email"],
      [op |-> "forgotPswd", defaultErrorCode |-> 403,
       defaultErrorMsg |-> "Code has expired."],
      [op |-> "updateBasicUserInfo", defaultErrorCode |-> 404,
       defaultErrorMsg |-> "User not found."] }

ThrownError(msg) == [kind |-> "Error", msg |-> msg]
ThrownValue(msg) == [kind |-> "value", msg |-> msg]

\* What a storage call rejects with when the database cannot be reached.
StorageError == ThrownError("SequelizeConnectionRefusedError: connect ECONNREFUSED")

Outcomes ==
    { Returned(msg, data) :
        msg \in {"User created successfully.", "Logged out successfully."},
        data \in {NoData, [id |-> 1]} }
      \cup { HttpError("Invalid credentials.", 401), HttpError("Password too long.", 400),
             HttpError("User limit reached.", 403),
             HttpError("User doesn't exist anymore", 404),
             HttpError("An unexpecteed error occurred in code verification", 500) }
      \cup { ThrownError("TypeError: Cannot destructure property 'userId' of null"),
             ThrownError("SequelizeUniqueConstraintError: Validation error"),
             ThrownValue("a string that was thrown") }

\* The wrapped function of handler h ends with outcome: the one response.
handle(h, outcome) ==
    /\ Respond(h.op, [outcome |-> outcome],
           tryCatchHandler(outcome, h.defaultErrorCode, h.defaultErrorMsg))
    /\ UNCHANGED <<users, nextId, refreshTokens, issued, now, ticks, revoked, run>>
    /\ UNCHANGED <<generated, codes, deleted, server, pending>>

\* The first awaited storage call of handler h is rejected: nothing is
\* written, and the rejection is what the wrapped function throws.
storageFailure(h) ==
    /\ Respond(h.op, [outcome |-> StorageError, storage |-> "rejected"],
           tryCatchHandler(StorageError, h.defaultErrorCode, h.defaultErrorMsg))
    /\ UNCHANGED <<users, nextId, refreshTokens, issued, now, ticks, revoked, run>>
    /\ UNCHANGED <<generated, codes, deleted, server, pending>>

----------------------------------------------------------------------------
\* The start of the process. process.env holds JWT_SECRET, VERCEL and
\* NODE_ENV, "" for a variable that is not set or is empty (both are falsy).
\* The entry points (server.ts, api/index.ts) import app.ts, which imports
\* the routes, which import controllers/User.ts: that module is evaluated,
\* and with it the test of JWT_SECRET, before app.ts registers a route.

Environments ==
    { [JWT_SECRET |-> s, VERCEL |-> v, NODE_ENV |-> n] :
        s \in {"", JWT_SECRET}, v \in {"", "1"}, n \in {"development", "production"} }

\* The test of JWT_SECRET that only logs the missing variable.
secretCheckLogOnly(env) == "loaded"

\* User.ts, lines 39-48: without JWT_SECRET the module throws (serverless
\* or production) or ends the process; the phase the process is in then.
secretCheck(env) ==
    IF env.JWT_SECRET = ""
    THEN IF env.VERCEL # "" \/ env.NODE_ENV = "production" THEN "threw" ELSE "exited"
    ELSE "loaded"

\* A process that serves requests.
Serving ==
    [phase |-> "serving",
     env |-> [JWT_SECRET |-> JWT_SECRET, VERCEL |-> "", NODE_ENV |-> "development"]]

\* The import of controllers/User.ts.
LoadControllers ==
    /\ server.phase = "start"
    /\ server' = [server EXCEPT !.phase = secretCheck(server.env)]
    /\ UNCHANGED <<users, nextId, refreshTokens, issued, now, ticks, res, revoked, run>>
    /\ UNCHANGED <<generated, codes, deleted, pending>>

\* app.ts, lines 211-212: the routes are mounted once the imports are done.
RegisterRoutes ==
    /\ server.phase = "loaded"
    /\ server' = [server EXCEPT !.phase = "serving"]
    /\ UNCHANGED <<users, nextId, refreshTokens, issued, now, ticks, res, revoked, run>>
    /\ UNCHANGED <<generated, codes, deleted, pending>>

----------------------------------------------------------------------------
\* The specification: any sequence of requests, of administrator's changes
\* and of clock advances, from the empty tables.

Init ==
    /\ users = {}
    /\ nextId = 1
    /\ refreshTokens = {}
    /\ issued = 0
    /\ now = 0
    /\ ticks = 0
    /\ res = NoRequest
    /\ revoked = {}
    /\ run = [id \in UserIds |-> NoRun]
    /\ generated = 0
    /\ codes = {}
    /\ deleted = {}
    /\ server = Serving
    /\ pending = {}

Signup ==
    /\ nextId <= MaxUsers
    /\ issued < MaxIssued
    /\ \E profile \in Profiles, password \in SignupPasswords :
           createUser(profile.email, profile.name, password)

Login ==
    /\ issued < MaxIssued
    /\ \E email \in Emails, password \in LoginPasswords : logInUser(email, password)

Refresh ==
    \E accessToken \in AccessTokenInputs, refreshToken \in RefreshTokenInputs :
        getNewAccessToken(accessToken, refreshToken)

Logout == \E accessToken \in AccessTokenInputs : logOutUser(accessToken)

ChangePassword ==
    \E accessToken \in AccessTokenInputs, oldPassword \in LoginPasswords,
       newPassword \in NewPasswords :
        changePassword(accessToken, oldPassword, newPassword)

Block == \E u \in users, isBlocked \in BOOLEAN : setBlocked(u.id, isBlocked)

Tick == ticks < MaxTicks /\ \E minutes \in TickSteps : advanceClock(minutes)

Next == Signup \/ Login \/ Refresh \/ Logout \/ ChangePassword \/ Block \/ Tick

Spec == Init /\ [][Next]_vars

\* One user's runs of logins, long enough to pass the cap: a signup, then
\* logins and logouts of that user.

RunSignup ==
    /\ users = {}
    /\ \E profile \in Profiles, password \in SignupPasswords :
           createUser(profile.email, profile.name, password)

RunLogin ==
    /\ issued < RunLogins
    /\ \A id \in UserIds : run[id].len < RunLogins
    /\ \E email \in Emails : logInUser(email, PwA)

RunLogout == \E accessToken \in SignedTokens : logOutUser(accessToken)

RunNext == RunSignup \/ RunLogin \/ RunLogout

SpecRun == Init /\ [][RunNext]_vars

\* Signups and logins, with logouts, the administrator's blocking and the clock.

LoginNext == Signup \/ Login \/ Logout \/ Block \/ Tick

SpecLogin == Init /\ [][LoginNext]_vars

\* Signups with any email and name, logins, account deletions and the
\* administrator's blocking.

SignupAny ==
    /\ nextId <= MaxUsers
    /\ issued < MaxIssued
    /\ \E email \in Emails, name \in Names, password \in SignupPasswords :
           createUser(email, name, password)

DeleteAccount == \E accessToken \in SignedTokens : deleteUser(accessToken)

SignupNext == SignupAny \/ Login \/ Block \/ DeleteAccount

SpecSignup == Init /\ [][SignupNext]_vars

\* Sessions: signups, logins, logouts and account deletions through their
\* routes, and the clock.

PostLogout ==
    \E accessToken \in AccessTokenInputs \cup {MISSING} : postLogout(accessToken)

PostDeleteUser ==
    \E accessToken \in AccessTokenInputs \cup {MISSING} : postDeleteUser(accessToken)

SessionNext == Signup \/ Login \/ PostLogout \/ PostDeleteUser \/ Tick

SpecSession == Init /\ [][SessionNext]_vars

\* Password changes: signups, password changes and the clock.

ChangeNext == Signup \/ ChangePassword \/ Tick

SpecChange == Init /\ [][ChangeNext]_vars

\* Password checks: signups, password checks, account deletions and the clock.

CheckOldPassword ==
    \E accessToken \in AccessTokenInputs, oldPassword \in LoginPasswords :
        checkOldPswd(accessToken, oldPassword)

CheckNext == Signup \/ CheckOldPassword \/ DeleteAccount \/ Tick

SpecCheck == Init /\ [][CheckNext]_vars

\* Reset codes: signups, reset codes asked for and redeemed, account
\* deletions and the clock.

GetCode ==
    /\ Cardinality(codes) < MaxCodes
    /\ \E email \in Emails : getForgotPswdCode(email)

ResetPassword ==
    /\ generated < MaxGenerated
    /\ \E code \in CodeInputs : forgotPswd(code)

CodeNext == Signup \/ GetCode \/ ResetPassword \/ DeleteAccount \/ Tick

SpecCode == Init /\ [][CodeNext]_vars

\* Password resets: signups, reset codes asked for and redeemed, logins with
\* the signup password and with the generated ones, the administrator's
\* blocking and the clock.

LoginAfterReset ==
    /\ issued < MaxIssued
    /\ \E email \in Emails,
          password \in {PwA} \cup { GeneratedPswd(n) : n \in 1..generated } :
           logInUser(email, password)

ResetNext == Signup \/ GetCode \/ ResetPassword \/ LoginAfterReset \/ Block \/ Tick

SpecReset == Init /\ [][ResetNext]_vars

----------------------------------------------------------------------------
\* The claims. A step that handles a request leaves the request and its
\* response in res', so a step with res'.op = "logInUser" is a login, and so on.

\* The payload getNewAccessToken reads from the access token of the last request.
refreshDecoded == jwtDecode(res.req.accessToken)

\* C1: getNewAccessToken returns an access token only if a row with the
\* refresh token sent and the user id decoded from the access token is
\* stored; with no such row it answers 401 "Invalid refresh token." and
\* returns no token.
C1_RefreshNeedsStoredRow ==
    (res.op = "getNewAccessToken" /\ refreshDecoded # NULL)
        => IF findRefreshToken(res.req.refreshToken, refreshDecoded.userId) = NULL
           THEN res.status = 401 /\ res.msg = "Invalid refresh token."
                    /\ res.data = NoData
           ELSE res.status = 200

\* C2: after a logout of a user, getNewAccessToken with a refresh token
\* that the logout destroyed for that user answers 401.
C2_RefreshFailsAfterLogout ==
    (/\ res.op = "getNewAccessToken"
     /\ refreshDecoded # NULL
     /\ [userId |-> refreshDecoded.userId, refreshToken |-> res.req.refreshToken,
         by |-> "logOutUser"] \in revoked)
        => res.status = 401

\* C3: after a password change of a user, getNewAccessToken with a refresh
\* token issued to that user before the change answers 401.
C3_RefreshFailsAfterChangePassword ==
    (/\ res.op = "getNewAccessToken"
     /\ refreshDecoded # NULL
     /\ [userId |-> refreshDecoded.userId, refreshToken |-> res.req.refreshToken,
         by |-> "updatePswd"] \in revoked)
        => res.status = 401

\* C4: getNewAccessToken with a stored refresh token of a user and an
\* expired access token signed for that user answers 200; with an access
\* token whose signature is not that of its payload it does not, whatever
\* the refresh token.
C4_RefreshExpiredOkTamperedFails ==
    (res.op = "getNewAccessToken" /\ res.req.accessToken # MALFORMED)
        => LET token == res.req.accessToken
               signed == token.sig = Signature(token.userId, token.exp, JWT_SECRET)
           IN  /\ (/\ signed
                   /\ now >= token.exp
                   /\ findRefreshToken(res.req.refreshToken, token.userId) # NULL)
                      => res.status = 200
               /\ ~signed => res.status # 200

\* The user a login request names, and whether its password matches.
loginUser == findUserByEmail(res'.req.email)
loginMatches ==
    loginUser # NULL /\ bcryptCompare(res'.req.password, loginUser.pswdHash)

\* C5: a login with the email and the password of a blocked user answers
\* 401 with the account-blocked message, returns no token and creates no
\* refresh token.
C5_BlockedLoginFails ==
    [][ (res'.op = "logInUser" /\ loginMatches /\ loginUser.isBlocked)
            => /\ res'.status = 401
               /\ res'.msg = "This account has been blocked. Please contact the admin."
               /\ res'.data = NoData
               /\ UNCHANGED <<refreshTokens, issued>> ]_vars

C5_Witness ==
    /\ res.op = "logInUser"
    /\ res.status = 401
    /\ \E u \in users :
          /\ u.email = res.req.email
          /\ bcryptCompare(res.req.password, u.pswdHash)
          /\ u.isBlocked

\* C6: while a user is blocked, changePassword with a valid access token of
\* that user and the user's password fails and changes neither the password
\* hash nor the refresh tokens.
C6_BlockedCannotChangePassword ==
    [][ LET verified == jwtVerify(res'.req.accessToken, JWT_SECRET)
            user == IF isJwtError(verified) THEN NULL ELSE findUserById(verified.userId)
        IN  (res'.op = "changePassword" /\ user # NULL /\ user.isBlocked)
                => /\ res'.status # 200
                   /\ UNCHANGED <<users, refreshTokens>> ]_vars

\* C7: a login answers 401 "Invalid credentials." both when no user has the
\* email and when a user has it and the password does not match, and
\* changes no table in either case.
C7_LoginFailureUniform ==
    [][ (res'.op = "logInUser" /\ ~loginMatches)
            => /\ res'.status = 401
               /\ res'.msg = "Invalid credentials."
               /\ res'.data = NoData
               /\ UNCHANGED <<users, nextId, refreshTokens, issued>> ]_vars

C7_Witness ==
    /\ res.op = "logInUser"
    /\ res.status = 401
    /\ res.msg = "Invalid credentials."
    /\ \E u \in users :
          u.email = res.req.email /\ ~bcryptCompare(res.req.password, u.pswdHash)

\* C8: a successful login of a user with at most 100 refresh tokens creates
\* exactly one row, of that user, expiring 30 days from now, and returns
\* its token; with more than 100 it creates none and returns the token of
\* a row stored for that user.
C8_LoginCreatesOrReuses ==
    [][ (res'.op = "logInUser" /\ res'.status = 200)
            => LET id == res'.data.id
                   row == [userId |-> id, refreshToken |-> res'.data.refreshToken,
                           expiration |-> now + REFRESH_TOKEN_EXPIRATION]
               IN  IF countRefreshTokens(id) <= REFRESH_TOKEN_CAP
                   THEN /\ row \notin refreshTokens
                        /\ \A r \in refreshTokens :
                              r.refreshToken # res'.data.refreshToken
                        /\ refreshTokens' = refreshTokens \cup {row}
                   ELSE /\ refreshTokens' = refreshTokens
                        /\ \E r \in refreshTokens :
                              /\ r.userId = id
                              /\ r.refreshToken = res'.data.refreshToken ]_vars

C8_Witness ==
    /\ res.op = "logInUser"
    /\ res.status = 200
    /\ countRefreshTokens(res.data.id) > REFRESH_TOKEN_CAP
    /\ ~run[res.data.id].lastCreated

\* C9 as claimed: in a run of consecutive logins of a user at most 100 rows
\* are created beyond the first, and the 101st and every later login
\* creates none.
C9_RunOfLogins ==
    \A id \in UserIds :
        /\ run[id].created <= REFRESH_TOKEN_CAP + 1
        /\ run[id].len >= REFRESH_TOKEN_CAP + 1 => ~run[id].lastCreated

\* C9 as amended: at most 101 rows are created in a run; the 102nd and every
\* later login creates none, and neither does the 101st when the user had
\* a refresh token stored when the run began.
C9_RunOfLoginsAmended ==
    \A id \in UserIds :
        /\ run[id].created <= REFRESH_TOKEN_CAP + 1
        /\ run[id].len >= REFRESH_TOKEN_CAP + 2 => ~run[id].lastCreated
        /\ (run[id].len >= REFRESH_TOKEN_CAP + 1 /\ run[id].start >= 1)
              => ~run[id].lastCreated

C9_Witness ==
    \E id \in UserIds :
        /\ run[id].len >= REFRESH_TOKEN_CAP + 2
        /\ run[id].start = 0
        /\ run[id].created = REFRESH_TOKEN_CAP + 1
        /\ res.op = "logInUser" /\ res.status = 200 /\ res.data.id = id

\* C10: the access token a successful signup returns verifies under the
\* secret, expires an hour from now, and carries the id of the user row
\* that this signup created.
C10_SignupTokenVerifies ==
    [][ (res'.op = "createUser" /\ res'.status = 200)
            => LET verified == jwtVerify(res'.data.accessToken, JWT_SECRET)
               IN  /\ ~isJwtError(verified)
                   /\ verified.userId = res'.data.id
                   /\ verified.exp = now + ACCESS_TOKEN_TTL
                   /\ \E u \in users' :
                         /\ u.id = verified.userId
                         /\ u.email = res'.req.email /\ u.name = res'.req.name
                         /\ \A v \in users : v.id # u.id
                         /\ users' = users \cup {u} ]_vars

C10_Witness ==
    /\ res.op = "createUser"
    /\ res.status = 200
    /\ ~isJwtError(jwtVerify(res.data.accessToken, JWT_SECRET))
    /\ \E u \in users : u.id = res.data.id /\ u.email = res.req.email

\* C11: a successful signup stores a user row with the email, the hash of
\* the password and no block; a user row changes or disappears only by the
\* administrator's blocking, an account deletion, a password change or a
\* password reset; and a login with the email and the password of a stored,
\* unblocked user row answers 200 with the id of that row, an access token
\* that verifies to that id and a refresh token stored for that id.
C11_LoginAfterSignup ==
    [][ /\ (res'.op = "createUser" /\ res'.status = 200)
            => \E u \in users' \ users :
                  /\ u.id = res'.data.id
                  /\ u.email = res'.req.email
                  /\ bcryptCompare(res'.req.password, u.pswdHash)
                  /\ ~u.isBlocked
        /\ (\E u \in users : u \notin users')
            => res'.op \in {"none", "deleteUser", "changePassword", "forgotPswd"}
        /\ (res'.op = "logInUser" /\ loginMatches /\ ~loginUser.isBlocked)
            => /\ res'.status = 200
               /\ res'.data.id = loginUser.id
               /\ LET verified == jwtVerify(res'.data.accessToken, JWT_SECRET)
                  IN  ~isJwtError(verified) /\ verified.userId = loginUser.id
               /\ \E r \in refreshTokens' :
                     /\ r.userId = loginUser.id
                     /\ r.refreshToken = res'.data.refreshToken ]_vars

C11_Witness ==
    /\ res.op = "logInUser"
    /\ res.status = 200
    /\ \E u \in users :
          /\ u.id = res.data.id
          /\ u.email = res.req.email
          /\ bcryptCompare(res.req.password, u.pswdHash)
    /\ \E r \in refreshTokens :
          r.userId = res.data.id /\ r.refreshToken = res.data.refreshToken

\* Whether a signup request names the email or the name of a stored user,
\* and whether its password is short enough and passes every rule.
signupTaken ==
    \E u \in users : u.email = res'.req.email \/ u.name = res'.req.name
signupPswdOk ==
    LET v == getPswdValidities(res'.req.name, res'.req.email, res'.req.password)
    IN  /\ res'.req.password.len <= MAX_PSWD_LEN
        /\ v.pswdLen /\ v.nameOrEmail /\ v.ul /\ v.ll /\ v.nums /\ v.specChars

\* C12 as claimed: a signup with the email or the name of a stored user
\* answers 409 "Email or name already taken." and creates no user row and
\* no refresh token.
C12_SignupConflict ==
    [][ (res'.op = "createUser" /\ signupTaken)
            => /\ res'.status = 409
               /\ res'.msg = "Email or name already taken."
               /\ UNCHANGED <<users, nextId, refreshTokens, issued>> ]_vars

\* C12 as amended: such a signup creates no user row and no refresh token;
\* below the user limit it answers 409 "Email or name already taken." when
\* its password is at most 100 characters long and passes the password
\* rules, and 400 when it is not; at the user limit it answers 403.
C12_SignupConflictAmended ==
    [][ (res'.op = "createUser" /\ signupTaken)
            => /\ UNCHANGED <<users, nextId, refreshTokens, issued>>
               /\ res'.data = NoData
               /\ IF userLimitReached(Cardinality(users))
                  THEN res'.status = 403
                  ELSE IF signupPswdOk
                  THEN res'.status = 409 /\ res'.msg = "Email or name already taken."
                  ELSE res'.status = 400 ]_vars

\* A signup refused for its name alone.
C12_Witness ==
    /\ res.op = "createUser"
    /\ res.status = 409
    /\ \E u \in users : u.name = res.req.name
    /\ \A u \in users : u.email # res.req.email

\* C13: a successful logout with a token of user u leaves no refresh token
\* of u stored, and leaves the refresh tokens of every other user and all
\* user rows as they were.
C13_LogoutFrame ==
    [][ (res'.op = "logOutUser" /\ res'.status = 200)
            => LET u == res'.req.accessToken.userId
               IN  /\ \A r \in refreshTokens' : r.userId # u
                   /\ refreshTokens' = { r \in refreshTokens : r.userId # u }
                   /\ UNCHANGED <<users, nextId>> ]_vars

\* A logout that destroyed a row of its user and left a row of another user.
C13_Witness ==
    /\ res.op = "logOutUser"
    /\ res.status = 200
    /\ \E d \in revoked :
          d.userId = res.req.accessToken.userId /\ d.by = "logOutUser"
    /\ \E r \in refreshTokens : r.userId # res.req.accessToken.userId

\* An access token that is missing, is no token, carries a signature that
\* is not the one of its payload under the secret, or has expired.
invalidAccessToken(token) ==
    \/ token = MISSING
    \/ token = MALFORMED
    \/ token.sig # Signature(token.userId, token.exp, JWT_SECRET)
    \/ now >= token.exp

\* C14: a logout or an account deletion with a missing, malformed, wrongly
\* signed or expired access token answers 401 or 403 and destroys no
\* refresh token and no user row.
C14_InvalidTokenRejected ==
    [][ (/\ res'.op \in {"logOutUser", "deleteUser"}
         /\ invalidAccessToken(res'.req.accessToken))
            => /\ res'.status \in {401, 403}
               /\ UNCHANGED <<users, refreshTokens>> ]_vars

\* An account deletion refused for an expired token of a stored user who
\* has a refresh token.
C14_Witness ==
    /\ res.op = "deleteUser"
    /\ res.status = 403
    /\ res.req.accessToken \notin {MISSING, MALFORMED}
    /\ res.req.accessToken.sig =
           Signature(res.req.accessToken.userId, res.req.accessToken.exp, JWT_SECRET)
    /\ now >= res.req.accessToken.exp
    /\ \E u \in users : u.id = res.req.accessToken.userId
    /\ \E r \in refreshTokens : r.userId = res.req.accessToken.userId

\* C15: a successful account deletion with a token of user u leaves no
\* user row and no refresh token of u, and every other user row and
\* refresh token as it was; a login with the email of a deleted user that
\* no stored user has answers 401.
C15_DeleteAccount ==
    [][ /\ (res'.op = "deleteUser" /\ res'.status = 200)
            => LET u == res'.req.accessToken.userId
               IN  /\ \A v \in users' : v.id # u
                   /\ \A r \in refreshTokens' : r.userId # u
                   /\ users' = { v \in users : v.id # u }
                   /\ refreshTokens' = { r \in refreshTokens : r.userId # u }
                   /\ \A d \in deleted' \ deleted :
                         d.id = u /\ \A v \in users' : v.email # d.email
        /\ (/\ res'.op = "logInUser"
            /\ \E d \in deleted : d.email = res'.req.email
            /\ \A v \in users : v.email # res'.req.email)
            => /\ res'.status = 401
               /\ res'.data = NoData
               /\ UNCHANGED <<users, refreshTokens>> ]_vars

\* A login refused for the email of a user whose row and refresh tokens an
\* account deletion destroyed.
C15_Witness ==
    /\ res.op = "logInUser"
    /\ res.status = 401
    /\ \A v \in users : v.email # res.req.email
    /\ \E d \in deleted :
          /\ d.email = res.req.email
          /\ \E row \in revoked : row.userId = d.id /\ row.by = "deleteUser"

\* The user a changePassword or checkOldPswd request is made for, when its
\* access token is valid and that user is stored.
tokenUser ==
    IF invalidAccessToken(res'.req.accessToken) THEN NULL
    ELSE findUserById(res'.req.accessToken.userId)

\* Whether a password passes every rule against a name and an email.
passesPolicy(name, email, pswd) ==
    LET v == getPswdValidities(name, email, pswd)
    IN  v.pswdLen /\ v.nameOrEmail /\ v.ul /\ v.ll /\ v.nums /\ v.specChars

\* C16: changePassword with a valid access token of a stored user answers
\* 401 when the old password does not match the stored hash, and 403 when
\* it matches and the new password fails a rule against the user's stored
\* name and email; in both cases no user row and no refresh token changes.
C16_ChangePasswordFailures ==
    [][ (res'.op = "changePassword" /\ tokenUser # NULL)
            => /\ ~bcryptCompare(res'.req.oldPassword, tokenUser.pswdHash)
                  => /\ res'.status = 401
                     /\ UNCHANGED <<users, refreshTokens>>
               /\ (/\ bcryptCompare(res'.req.oldPassword, tokenUser.pswdHash)
                   /\ ~passesPolicy(tokenUser.name, tokenUser.email, res'.req.newPassword))
                  => /\ res'.status = 403
                     /\ UNCHANGED <<users, refreshTokens>> ]_vars

\* A password change refused for its new password, for a user who has a
\* refresh token.
C16_Witness ==
    /\ res.op = "changePassword"
    /\ res.status = 403
    /\ res.msg = "Invalid new password."
    /\ \E u \in users :
          /\ u.id = res.req.accessToken.userId
          /\ bcryptCompare(res.req.oldPassword, u.pswdHash)
          /\ \E r \in refreshTokens : r.userId = u.id

\* Whether the access token of a request is valid and names no stored user.
tokenUserGone ==
    /\ ~invalidAccessToken(res'.req.accessToken)
    /\ findUserById(res'.req.accessToken.userId) = NULL

\* C17 as claimed: checkOldPswd with a valid access token of a stored user
\* returns whether the password matches the stored hash; with a valid
\* token of a user that is not stored it answers 404; it changes nothing.
C17_CheckReturnsBoolean ==
    [][ res'.op = "checkOldPswd"
            => /\ tokenUser # NULL
                  => /\ res'.status = 200
                     /\ res'.data =
                            bcryptCompare(res'.req.oldPassword, tokenUser.pswdHash)
               /\ tokenUserGone => res'.status = 404
               /\ UNCHANGED <<users, nextId, refreshTokens, issued>> ]_vars

\* C17 as amended: checkOldPswd with a valid access token of a stored user
\* returns true when the password matches the stored hash and answers 401
\* "Invalid old password.", with no result, when it does not; with a valid
\* token of a user that is not stored it answers 404; it changes nothing.
C17_CheckOldPswdAmended ==
    [][ res'.op = "checkOldPswd"
            => /\ tokenUser # NULL
                  => IF bcryptCompare(res'.req.oldPassword, tokenUser.pswdHash)
                     THEN res'.status = 200 /\ res'.data = TRUE
                     ELSE /\ res'.status = 401
                          /\ res'.msg = "Invalid old password."
                          /\ res'.data = NoData
               /\ tokenUserGone => res'.status = 404 /\ res'.data = NoData
               /\ UNCHANGED <<users, nextId, refreshTokens, issued>> ]_vars

\* A password check of a stored user refused for a password that does not match.
C17_Witness ==
    /\ res.op = "checkOldPswd"
    /\ res.status = 401
    /\ \E u \in users :
          /\ u.id = res.req.accessToken.userId
          /\ ~bcryptCompare(res.req.oldPassword, u.pswdHash)

\* Whether the code of a request carries the signature of its payload under
\* the secret.
codeSigned ==
    /\ res'.req.code # MALFORMED
    /\ res'.req.code.sig =
           Signature(Subject(res'.req.code), res'.req.code.exp, JWT_SECRET)

\* C18: forgotPswd answers 403 "Code has expired" for a correctly signed
\* code older than 5 minutes, 401 "Invalid code" for a code that is
\* malformed or wrongly signed, and 404 for a valid code whose email no
\* stored user has; in each case no user row and no refresh token changes.
C18_ResetFailures ==
    [][ res'.op = "forgotPswd"
            => /\ (codeSigned /\ now >= res'.req.code.exp)
                  => /\ res'.status = 403
                     /\ res'.msg = "Code has expired"
                     /\ UNCHANGED <<users, refreshTokens>>
               /\ ~codeSigned
                  => /\ res'.status = 401
                     /\ res'.msg = "Invalid code"
                     /\ UNCHANGED <<users, refreshTokens>>
               /\ (/\ codeSigned
                   /\ now < res'.req.code.exp
                   /\ "email" \in DOMAIN res'.req.code
                   /\ \A u \in users : u.email # res'.req.code.email)
                  => /\ res'.status = 404
                     /\ UNCHANGED <<users, refreshTokens>> ]_vars

\* A reset refused for a valid code whose user was deleted after the code
\* was issued.
C18_Witness ==
    /\ res.op = "forgotPswd"
    /\ res.status = 404
    /\ res.req.code \in IssuedCodes
    /\ now < res.req.code.exp
    /\ \E d \in deleted : d.email = res.req.code.email

\* C19: a successful forgotPswd gives the user with the email of the code
\* the hash of a password that is not the one the user had, destroys every
\* refresh token of that user, changes nothing else in the tables, and
\* returns that password; a login for that email that follows it answers
\* 200 with the returned password, unless the user is blocked, and 401 with
\* any other password.
C19_ResetThenLogin ==
    [][ /\ (res'.op = "forgotPswd" /\ res'.status = 200)
            => LET u == findUserByEmail(res'.req.code.email)
               IN  /\ u # NULL
                   /\ ~bcryptCompare(res'.data, u.pswdHash)
                   /\ users' = (users \ {u}) \cup
                                   { [u EXCEPT !.pswdHash = bcryptHash(res'.data)] }
                   /\ refreshTokens' = { r \in refreshTokens : r.userId # u.id }
        /\ (/\ res.op = "forgotPswd" /\ res.status = 200
            /\ res'.op = "logInUser" /\ res'.req.email = res.req.code.email)
            => IF res'.req.password # res.data
               THEN res'.status = 401 /\ res'.msg = "Invalid credentials."
               ELSE IF findUserByEmail(res.req.code.email).isBlocked
               THEN res'.status = 401
               ELSE /\ res'.status = 200
                    /\ res'.data.id = findUserByEmail(res.req.code.email).id ]_vars

\* A login that succeeded with a generated password, after the reset
\* destroyed a refresh token of the user.
C19_Witness ==
    /\ res.op = "logInUser"
    /\ res.status = 200
    /\ \E n \in 1..generated : res.req.password = GeneratedPswd(n)
    /\ \E row \in revoked : row.userId = res.data.id /\ row.by = "updatePswd"

\* C20: forgotPswd with a correctly signed, unexpired code that was
\* redeemed before, for a user that is stored, answers 200 again, gives the
\* user the hash of another newly generated password and destroys every
\* refresh token of the user.
C20_CodeNotConsumed ==
    [][ (/\ res'.op = "forgotPswd"
         /\ codeSigned
         /\ now < res'.req.code.exp
         /\ usesOf(res'.req.code) >= 1
         /\ findUserByEmail(res'.req.code.email) # NULL)
            => LET u == findUserByEmail(res'.req.code.email)
               IN  /\ res'.status = 200
                   /\ ~bcryptCompare(res'.data, u.pswdHash)
                   /\ \E v \in users' :
                         v.id = u.id /\ bcryptCompare(res'.data, v.pswdHash)
                   /\ \A r \in refreshTokens' : r.userId # u.id
                   /\ generated' = generated + 1 ]_vars

\* A second successful reset with one code, each of the two having
\* destroyed a refresh token of the user.
C20_Witness ==
    /\ res.op = "forgotPswd"
    /\ res.status = 200
    /\ usesOf(res.req.code) = 2
    /\ generated >= 2
    /\ \E u \in users :
          /\ u.email = res.req.code.email
          /\ \A r \in refreshTokens : r.userId # u.id
          /\ \E row1, row2 \in revoked :
                /\ row1.userId = u.id /\ row1.by = "updatePswd"
                /\ row2.userId = u.id /\ row2.by = "updatePswd"
                /\ row1.refreshToken # row2.refreshToken

----------------------------------------------------------------------------
\* The life of a reset code: signups, reset codes asked for and redeemed,
\* and a clock that advances by just less than, or by exactly, the time a
\* code is valid for.

CodeTickSteps == {RESET_CODE_TTL - 1, RESET_CODE_TTL}

TickCode == ticks < MaxTicks /\ \E minutes \in CodeTickSteps : advanceClock(minutes)

ForgotNext == Signup \/ GetCode \/ ResetPassword \/ TickCode

SpecForgot == Init /\ [][ForgotNext]_vars

----------------------------------------------------------------------------
\* C21: getForgotPswdCode answers 404 when no user has the email; otherwise
\* it returns a code that verifies under the secret, carries exactly that
\* email and expires 5 minutes later, and forgotPswd accepts an issued code
\* of an existing user until then. Neither answer changes a user row, a
\* refresh-token row or the id counter.
C21_CodeForEmail ==
    [][ /\ res'.op = "getForgotPswdCode"
            => /\ UNCHANGED <<users, nextId, refreshTokens, issued>>
               /\ IF findUserByEmail(res'.req.email) = NULL
                  THEN /\ res'.status = 404
                       /\ res'.data = NoData
                  ELSE /\ res'.status = 200
                       /\ ~isJwtError(jwtVerify(res'.data, JWT_SECRET))
                       /\ jwtVerify(res'.data, JWT_SECRET).email = res'.req.email
                       /\ res'.data.exp = now + RESET_CODE_TTL
        /\ ( /\ res'.op = "forgotPswd"
             /\ res'.req.code \in IssuedCodes
             /\ now < res'.req.code.exp
             /\ findUserByEmail(res'.req.code.email) # NULL )
            => res'.status = 200 ]_vars

\* A code was redeemed some minutes after it was issued.
C21_Witness ==
    /\ res.op = "forgotPswd"
    /\ res.status = 200
    /\ res.req.code \in IssuedCodes
    /\ now > res.req.code.exp - RESET_CODE_TTL
    /\ now < res.req.code.exp

----------------------------------------------------------------------------
\* Refreshes among signups, logins, logouts and the clock.

RefreshNext == Signup \/ Login \/ Refresh \/ Logout \/ Tick

SpecRefresh == Init /\ [][RefreshNext]_vars

\* C22: getNewAccessToken, whether it answers 200 or fails, leaves the
\* refresh-token rows and the user rows as they were: it creates no row,
\* destroys none and extends no expiration.
C22_RefreshFrame ==
    [][ res'.op = "getNewAccessToken"
            => UNCHANGED <<refreshTokens, users, nextId, issued>> ]_vars

\* A refresh was answered 200 while the user holds a refresh-token row
\* that is older than the request.
C22_Witness ==
    /\ res.op = "getNewAccessToken"
    /\ res.status = 200
    /\ \E r \in refreshTokens :
          /\ r.userId = jwtDecode(res.req.accessToken).userId
          /\ r.refreshToken = res.req.refreshToken
          /\ r.expiration < now + REFRESH_TOKEN_EXPIRATION

----------------------------------------------------------------------------
\* The wrapper alone: every handler, with every way its function can end
\* and with a storage call that is rejected.

Handle ==
    /\ server.phase = "serving"
    /\ \E h \in Handlers, outcome \in Outcomes : handle(h, outcome)

StorageFailure ==
    /\ server.phase = "serving"
    /\ \E h \in Handlers : storageFailure(h)

HandlerNext == Handle \/ StorageFailure

SpecHandler == Init /\ [][HandlerNext]_vars

handlerOf(op) == CHOOSE h \in Handlers : h.op = op

\* C23: a request whose storage call is rejected is answered as an
\* internal failure (500), not with Conflict (409), Unauthorized (401),
\* Forbidden (403) or NotFound (404).
C23_StorageFailureInternal ==
    (res.op # "none" /\ "storage" \in DOMAIN res.req) => res.status = 500

----------------------------------------------------------------------------
\* The start of the process in every environment, and the requests it
\* serves once the routes are mounted.

InitStart ==
    /\ users = {}
    /\ nextId = 1
    /\ refreshTokens = {}
    /\ issued = 0
    /\ now = 0
    /\ ticks = 0
    /\ res = NoRequest
    /\ revoked = {}
    /\ run = [id \in UserIds |-> NoRun]
    /\ generated = 0
    /\ codes = {}
    /\ deleted = {}
    /\ server \in { [phase |-> "start", env |-> env] : env \in Environments }
    /\ pending = {}

ServeSignup == server.phase = "serving" /\ Signup

ServeLogin == server.phase = "serving" /\ Login

ServeLogout == server.phase = "serving" /\ Logout

StartNext == LoadControllers \/ RegisterRoutes \/ ServeSignup \/ ServeLogin \/ ServeLogout

SpecStart == InitStart /\ [][StartNext]_vars

\* C25: a process started without JWT_SECRET never gets as far as mounting
\* its routes: it throws or exits while the controllers are imported, so it
\* answers no request and signs no token.
C25_NoSecretNoService ==
    server.env.JWT_SECRET = ""
        => /\ server.phase \in {"start", "threw", "exited"}
           /\ res = NoRequest
           /\ users = {}
           /\ refreshTokens = {}

\* A serverless process without the secret threw while it was loading.
C25_Witness ==
    /\ server.env.JWT_SECRET = ""
    /\ server.env.VERCEL = "1"
    /\ server.phase = "threw"

----------------------------------------------------------------------------
\* Profiles: signups in one step and signups that overlap other requests,
\* updates of name and email, and account deletions.

SignupChecks ==
    /\ Cardinality(pending) < MaxPending
    /\ \E email \in Emails, name \in Names, password \in SignupPasswords :
           createUserChecks(email, name, password)

SignupInsert ==
    /\ nextId <= MaxUsers
    /\ issued < MaxIssued
    /\ \E p \in pending : p.op = "createUser" /\ createUserInsert(p)

UpdateInfo ==
    \E accessToken \in SignedTokens, name \in Names, email \in Emails :
        updateBasicUserInfo(accessToken, name, email)

ProfileNext == SignupAny \/ SignupChecks \/ SignupInsert \/ UpdateInfo \/ DeleteAccount

SpecProfile == Init /\ [][ProfileNext]_vars

\* C26: in every state no two user rows share an email and no two share a
\* name, whatever signups (in one step or overlapping), updates of name and
\* email and account deletions came before.
C26_UniqueEmailAndName ==
    \A u \in users, v \in users :
        u # v => u.email # v.email /\ u.name # v.name /\ u.id # v.id

\* An update to the email of another user was refused while a signup that
\* has passed its checks is in flight with an email that is taken by now.
C26_Witness ==
    /\ res.op = "updateBasicUserInfo"
    /\ res.status = 404
    /\ \E u \in users, v \in users :
          /\ u.id = jwtVerify(res.req.accessToken, JWT_SECRET).userId
          /\ v.id # u.id
          /\ v.email = res.req.email
    /\ \E p \in pending, u \in users : p.op = "createUser" /\ u.email = p.req.email

----------------------------------------------------------------------------
\* C27: a refresh answers 200, with a signed access token for user u, only
\* to a caller that holds a credential of u: an access token the server
\* signed for u, or a refresh token stored for u.
C27_NoTokenWithoutCredential ==
    ( /\ res.op = "getNewAccessToken"
      /\ res.status = 200
      /\ ~isJwtError(jwtVerify(res.data, JWT_SECRET)) )
        => LET accessToken == res.req.accessToken
               u == jwtVerify(res.data, JWT_SECRET).userId
           IN  \/ /\ accessToken.userId = u
                  /\ accessToken.sig = Signature(u, accessToken.exp, JWT_SECRET)
               \/ findRefreshToken(res.req.refreshToken, u) # NULL

----------------------------------------------------------------------------
\* Who a reset code belongs to: signups with any email and name, reset
\* codes asked for and redeemed, updates of name and email, and account
\* deletions.

OwnerNext == SignupAny \/ GetCode \/ ResetPassword \/ UpdateInfo \/ DeleteAccount

SpecOwner == Init /\ [][OwnerNext]_vars

\* C28: a reset that succeeds changes the password of no user but the one
\* the code was issued to, whatever updates of name and email, signups and
\* account deletions came between the issue and the use of the code.
C28_CodeResetsItsUser ==
    [][ (res'.op = "forgotPswd" /\ res'.status = 200)
            => \A u \in users :
                   (\E v \in users' : v.id = u.id /\ v.pswdHash # u.pswdHash)
                       => \E c \in codes : c.code = res'.req.code /\ c.userId = u.id ]_vars

----------------------------------------------------------------------------
\* Overlapping requests: a login that is suspended between its checks and
\* its use of the refresh-token table, while password changes and account
\* deletions run to completion.

LoginChecks ==
    /\ Cardinality(pending) < MaxPending
    /\ \E email \in Emails, password \in LoginPasswords : logInUserChecks(email, password)

LoginIssue ==
    /\ issued < MaxIssued
    /\ \E p \in pending : p.op = "logInUser" /\ logInUserIssue(p)

ChangeOwnPassword ==
    \E accessToken \in SignedTokens, oldPassword \in LoginPasswords,
       newPassword \in NewPasswords :
        changePassword(accessToken, oldPassword, newPassword)

OverlapNext == Signup \/ LoginChecks \/ LoginIssue \/ ChangeOwnPassword \/ DeleteAccount

SpecOverlap == Init /\ [][OverlapNext]_vars

\* C29: a login gives out a refresh token only on the strength of the
\* password the user has at that moment: when a password change for the
\* user has completed since the login compared the password, the login
\* leaves no refresh token for the user.
C29_NoTokenOnOldPassword ==
    [][ \A p \in pending :
           ( /\ p.op = "logInUser"
             /\ p \notin pending'
             /\ \E u \in users : u.id = p.user.id /\ u.pswdHash # p.user.pswdHash )
               => tokensOf(p.user.id)' = {} ]_vars

\* C30: no refresh-token row carries the id of a user whose deletion has
\* completed, also when a login of that user overlaps the deletion.
C30_NoTokenAfterDelete ==
    \A d \in deleted : \A r \in refreshTokens : r.userId # d.id

----------------------------------------------------------------------------
\* The cap under overlapping logins: one user's signup, then logins of
\* which at most MaxInFlight are in flight at once.

Slots == 1..MaxInFlight

LoginRead ==
    \E slot \in Slots :
        /\ \A p \in pending : p.slot # slot
        /\ \E email \in Emails : logInUserRead(slot, email, PwA)

LoginCount == \E p \in pending : p.stage = "checked" /\ logInUserCount(p)

LoginCreate == \E p \in pending : p.stage = "counted" /\ logInUserCreate(p)

CapNext == RunSignup \/ LoginRead \/ LoginCount \/ LoginCreate

SpecCap == Init /\ [][CapNext]_vars

\* C31: with at most MaxInFlight logins in flight at once, no user ever has
\* more than 100 + MaxInFlight refresh tokens (and more than 101 are
\* reached: the witness).
C31_SoftCap ==
    \A id \in UserIds : countRefreshTokens(id) <= REFRESH_TOKEN_CAP + MaxInFlight

\* Logins that all read the count before any of them created its row took
\* a user to 100 + MaxInFlight refresh tokens, which is more than 101.
C31_Witness ==
    \E id \in UserIds :
        /\ countRefreshTokens(id) = REFRESH_TOKEN_CAP + MaxInFlight
        /\ countRefreshTokens(id) > REFRESH_TOKEN_CAP + 1
        /\ res.op = "logInUser"
        /\ res.status = 200
        /\ res.data.id = id

----------------------------------------------------------------------------
\* Requests one at a time around the cap: from the tables an hour after a
\* signup and 99 logins of one user (100 refresh tokens, all of the first
\* instant), every request that touches refresh tokens.

NearCapUser ==
    [id |-> 1, email |-> "a@x.com", name |-> "alice1",
     pswdHash |-> bcryptHash(PwA), isBlocked |-> FALSE]

InitNearCap ==
    /\ users = {NearCapUser}
    /\ nextId = 2
    /\ refreshTokens =
           { [userId |-> 1, refreshToken |-> t, expiration |-> REFRESH_TOKEN_EXPIRATION] :
               t \in 1..REFRESH_TOKEN_CAP }
    /\ issued = REFRESH_TOKEN_CAP
    /\ now = ACCESS_TOKEN_TTL
    /\ ticks = 1
    /\ res = NoRequest
    /\ revoked = {}
    /\ run = [id \in UserIds |->
                 IF id = 1
                 THEN [len |-> REFRESH_TOKEN_CAP - 1, created |-> REFRESH_TOKEN_CAP - 1,
                       start |-> 1, lastCreated |-> TRUE]
                 ELSE NoRun]
    /\ generated = 0
    /\ codes = {}
    /\ deleted = {}
    /\ server = Serving
    /\ pending = {}

\* How many refresh tokens may be drawn: as many as take the user beyond
\* the cap.
SeqIssued == REFRESH_TOKEN_CAP + MaxIssued - 1

\* The passwords a request is tried with: those a user may have by now.
SeqPasswords == {PwA, PwB} \cup { GeneratedPswd(n) : n \in 1..generated }

\* Requests that are refused change nothing but the response, so each
\* request is tried for the users there are, with the password they have.

SeqSignup ==
    /\ nextId <= MaxUsers
    /\ issued < SeqIssued
    /\ \E profile \in Profiles : createUser(profile.email, profile.name, PwA)

SeqLogin ==
    /\ \A id \in UserIds : run[id].len < RunLogins
    /\ \E u \in users, password \in SeqPasswords :
           /\ issued < SeqIssued \/ countRefreshTokens(u.id) > REFRESH_TOKEN_CAP
           /\ bcryptCompare(password, u.pswdHash)
           /\ logInUser(u.email, password)

SeqRefresh ==
    /\ users # {}
    /\ \E u \in users : getNewAccessToken(SignedAt(u.id, now), issued)

SeqLogout ==
    /\ users # {}
    /\ \E u \in users : logOutUser(SignedAt(u.id, now))

SeqChangePassword ==
    /\ users # {}
    /\ \E u \in users, oldPassword \in SeqPasswords :
           /\ bcryptCompare(oldPassword, u.pswdHash)
           /\ changePassword(SignedAt(u.id, now), oldPassword, PwB)

SeqGetCode ==
    /\ Cardinality(codes) < MaxCodes
    /\ \E u \in users : getForgotPswdCode(u.email)

SeqResetPassword ==
    /\ generated < MaxGenerated
    /\ \E code \in IssuedCodes : forgotPswd(code)

SeqDelete ==
    /\ users # {}
    /\ \E u \in users : deleteUser(SignedAt(u.id, now))

SeqNext ==
    SeqSignup \/ SeqLogin \/ SeqRefresh \/ SeqLogout \/ SeqChangePassword
        \/ SeqGetCode \/ SeqResetPassword \/ SeqDelete

SpecSeq == InitNearCap /\ [][SeqNext]_vars

\* C32: when requests run one at a time, no user ever has more than 101
\* refresh tokens.
C32_HardCapInSequence ==
    \A id \in UserIds : countRefreshTokens(id) <= REFRESH_TOKEN_CAP + 1

\* A user with 101 refresh tokens logged in once more and got none created.
C32_Witness ==
    /\ res.op = "logInUser"
    /\ res.status = 200
    /\ countRefreshTokens(res.data.id) = REFRESH_TOKEN_CAP + 1
    /\ ~run[res.data.id].lastCreated

----------------------------------------------------------------------------
\* The handlers that verify the access token they are given.
StrictTokenHandlers == {"logOutUser", "deleteUser", "checkOldPswd", "changePassword"}

\* C33: a logout, an account deletion, a password check or a password
\* change given an access token that is malformed, wrongly signed or
\* expired answers 401.
C33_InvalidTokenUnauthorized ==
    [][ (/\ res'.op \in StrictTokenHandlers
         /\ res'.req.accessToken # MISSING
         /\ invalidAccessToken(res'.req.accessToken))
            => res'.status = 401 ]_vars

----------------------------------------------------------------------------
\* A login was answered with a refresh token it did not create.
reusedRefreshToken ==
    /\ res'.op = "logInUser"
    /\ res'.status = 200
    /\ pending' # pending
    /\ refreshTokens' = refreshTokens

\* C34: a login that finds more than 100 refresh tokens of the user
\* returns one with the latest expiration of the user's tokens, and two
\* such logins answered one after the other, the tokens as they were,
\* return the same token.
C34_NewestByInsertion ==
    [][ reusedRefreshToken
            => /\ \E r \in newestRefreshTokens(res'.data.id) :
                      r.refreshToken = res'.data.refreshToken
               /\ (/\ res.op = "logInUser"
                   /\ res.status = 200
                   /\ res.data.id = res'.data.id
                   /\ res.data.refreshToken # issued)
                      => res'.data.refreshToken = res.data.refreshToken ]_vars

----------------------------------------------------------------------------
\* Passwords of any length: signups, logins, password checks and password
\* changes tried with a password of 101 characters that has a letter of
\* each case, a digit and a special character.

PwLong ==
    [text |-> "Str0ng!Pwd-of-101-characters", len |-> MAX_PSWD_LEN + 1, pswdLen |-> TRUE,
     ul |-> TRUE, ll |-> TRUE, nums |-> TRUE, specChars |-> TRUE, partOf |-> {}]

PolicySignup ==
    /\ nextId <= MaxUsers
    /\ issued < MaxIssued
    /\ \E profile \in Profiles, password \in {PwA, PwWeak, PwLong} :
           createUser(profile.email, profile.name, password)

PolicyLogin ==
    /\ issued < MaxIssued
    /\ \E email \in Emails, password \in {PwA, PwLong} : logInUser(email, password)

PolicyCheckOldPassword ==
    /\ users # {}
    /\ \E u \in users, oldPassword \in {PwA, PwLong} :
           checkOldPswd(SignedAt(u.id, now), oldPassword)

PolicyChangePassword ==
    /\ users # {}
    /\ \E u \in users, oldPassword \in {PwA, PwB, PwLong},
          newPassword \in {PwB, PwWeak, PwLong} :
           changePassword(SignedAt(u.id, now), oldPassword, newPassword)

PolicyNext == PolicySignup \/ PolicyLogin \/ PolicyCheckOldPassword \/ PolicyChangePassword

SpecPolicy == Init /\ [][PolicyNext]_vars

\* The passwords the request answered last handed to bcrypt.hash or to
\* bcrypt.compare with a stored hash: createUser hashes once its three
\* tests have passed (line 140), logInUser compares before any test (line
\* 165), checkOldPswd and changePassword compare once the user is found
\* (lines 270, 309), and changePassword hashes the new password in
\* updatePswd (line 386).
bcryptInputs ==
    IF res.op = "createUser"
    THEN IF res.status \in {200, 409} THEN {res.req.password} ELSE {}
    ELSE IF res.op = "logInUser"
    THEN IF findUserByEmail(res.req.email) # NULL THEN {res.req.password} ELSE {}
    ELSE IF res.op = "checkOldPswd"
    THEN IF res.status \in {200, 401} THEN {res.req.oldPassword} ELSE {}
    ELSE IF res.op = "changePassword"
    THEN IF res.status = 200 THEN {res.req.oldPassword, res.req.newPassword}
         ELSE IF res.status \in {401, 403} THEN {res.req.oldPassword} ELSE {}
    ELSE {}

\* C35: no password of more than 100 characters that a request carries is
\* handed to bcrypt, and none is stored as a hash.
C35_NoLongPasswordHashed ==
    /\ \A password \in bcryptInputs : password.len <= MAX_PSWD_LEN
    /\ \A u \in users : u.pswdHash # bcryptHash(PwLong)

----------------------------------------------------------------------------
\* The order of the tests of a signup: signups in two steps, tried with a
\* short, a weak and a long password, in tables of few rows and in tables
\* of 4_294_967_294 and of 4_294_967_295 rows (of which `users` are the
\* rows of the emails and names followed here).

UserCounts ==
    {Words(Cardinality(users)), [hi |-> WORD16 - 1, lo |-> WORD16 - 2], USER_LIMIT}

OrderSignupChecks ==
    /\ Cardinality(pending) < MaxPending
    /\ \E userCount \in UserCounts, email \in Emails, name \in Names,
          password \in {PwA, PwWeak, PwLong} :
           createUserChecksAt(userCount, email, name, password)

OrderNext == OrderSignupChecks \/ SignupInsert

SpecOrder == Init /\ [][OrderNext]_vars

\* What is wrong with the signup answered in this step, if anything.
signupRefusal ==
    LET req == res'.req
    IN  IF userLimitReachedWords(req.userCount)
        THEN [status |-> 403, msg |-> "User limit reached."]
        ELSE IF req.password.len > MAX_PSWD_LEN
        THEN [status |-> 400, msg |-> "Password too long."]
        ELSE IF ~passesPolicy(req.name, req.email, req.password)
        THEN [status |-> 400, msg |-> "Invalid password."]
        ELSE NULL

\* C36: a signup whose password has more than 100 characters or fails a
\* rule against the name and email it came with, or that finds
\* 4_294_967_295 user rows or more, is refused (403 for the count, 400 for
\* the password), creates no user row and no refresh token, and is answered
\* before its password is hashed and before the insert that tests email
\* and name, whether or not they are taken.
C36_SignupRefusedFirst ==
    [][ (res'.op = "createUser" /\ signupRefusal # NULL)
            => /\ res'.status = signupRefusal.status
               /\ res'.msg = signupRefusal.msg
               /\ res'.data = NoData
               /\ UNCHANGED <<users, nextId, refreshTokens, issued, pending>> ]_vars

\* A signup with a long password and a taken email was refused at the user
\* limit, for its count.
C36_Witness ==
    /\ res.op = "createUser"
    /\ res.status = 403
    /\ res.msg = "User limit reached."
    /\ res.req.password = PwLong
    /\ \E u \in users : u.email = res.req.email

----------------------------------------------------------------------------
\* Account standing: signups, logins, blocks and refreshes.

StandingNext == Signup \/ Login \/ Block \/ Refresh

SpecStanding == Init /\ [][StandingNext]_vars

\* The stored user a refresh request names, and whether the request came
\* with a refresh token stored for that user.
refreshUser ==
    IF jwtDecode(res'.req.accessToken) = NULL
    THEN NULL
    ELSE findUserById(jwtDecode(res'.req.accessToken).userId)

holdsRefreshToken ==
    \E r \in refreshTokens :
        r.userId = refreshUser.id /\ r.refreshToken = res'.req.refreshToken

\* C37: a refresh for a blocked user with a refresh token stored for that
\* user answers 200 with an access token signed now for the user, while a
\* login with the email and the password of that user answers 401.
C37_RefreshIgnoresBlock ==
    [][ /\ (/\ res'.op = "getNewAccessToken"
            /\ refreshUser # NULL
            /\ refreshUser.isBlocked
            /\ holdsRefreshToken)
               => /\ res'.status = 200
                  /\ res'.data = getAccessToken(refreshUser.id)
                  /\ jwtVerify(res'.data, JWT_SECRET) = [userId |-> refreshUser.id,
                                                         exp |-> now + ACCESS_TOKEN_TTL]
        /\ (res'.op = "logInUser" /\ loginMatches /\ loginUser.isBlocked)
               => res'.status = 401 /\ res'.data = NoData ]_vars

\* A blocked user who holds a stored refresh token was given an access token.
C37_Witness ==
    /\ res.op = "getNewAccessToken"
    /\ res.status = 200
    /\ \E u \in users, r \in refreshTokens :
          /\ u.isBlocked
          /\ u.id = jwtDecode(res.req.accessToken).userId
          /\ r.userId = u.id
          /\ r.refreshToken = res.req.refreshToken

----------------------------------------------------------------------------
\* What a login with an email that no user has is answered.
unknownEmailResponse ==
    tryCatchHandler(loginCheck(NULL, FALSE), DefaultErrorCode, DefaultErrorMsg)

\* C38: a login is answered with the account-blocked message only when its
\* password matches the hash of a blocked user; with a password that does
\* not match, a login for a blocked user is answered as a login with an
\* unknown email is: 401 "Invalid credentials." and no data.
C38_BlockedOnlyWithPassword ==
    [][ res'.op = "logInUser"
            => /\ res'.msg = "This account has been blocked. Please contact the admin."
                  => loginMatches /\ loginUser.isBlocked
               /\ (loginUser # NULL /\ loginUser.isBlocked /\ ~loginMatches)
                  => /\ res'.status = unknownEmailResponse.status
                     /\ res'.msg = unknownEmailResponse.msg
                     /\ res'.data = unknownEmailResponse.data
                     /\ res'.status = 401
                     /\ res'.msg = "Invalid credentials." ]_vars

\* A login for a blocked user with a password that is not the user's was
\* answered 401 "Invalid credentials.".
C38_Witness ==
    /\ res.op = "logInUser"
    /\ res.status = 401
    /\ res.msg = "Invalid credentials."
    /\ \E u \in users :
          /\ u.email = res.req.email
          /\ u.isBlocked
          /\ ~bcryptCompare(res.req.password, u.pswdHash)

----------------------------------------------------------------------------
\* The serverless entry point, api/index.ts. Its module variables are
\* fields of `server`: `isConnecting`, and `ready`, which is null
\* (NoPromise) or holds the promise of a connection attempt, named by the
\* number of the attempt; `attempts` is the state of each attempt's promise,
\* "pending" while connectDatabase is in flight. An invocation of the
\* handler occupies a slot until it is dispatched to the application or
\* answered 500. JavaScript runs each piece of code up to its next await
\* without interruption, and the callbacks of a settled promise before any
\* new invocation or timer.

NoPromise == 0

Serverless ==
    [phase |-> "serving",
     env |-> [JWT_SECRET |-> JWT_SECRET, VERCEL |-> "1", NODE_ENV |-> "production"],
     ready |-> NoPromise, isConnecting |-> FALSE, attempts |-> <<>>]

InitEntry ==
    /\ users = {}
    /\ nextId = 1
    /\ refreshTokens = {}
    /\ issued = 0
    /\ now = 0
    /\ ticks = 0
    /\ res = NoRequest
    /\ revoked = {}
    /\ run = [id \in UserIds |-> NoRun]
    /\ generated = 0
    /\ codes = {}
    /\ deleted = {}
    /\ server = Serverless
    /\ pending = {}

\* An invocation suspended in `await ensureReady()`: on the promise it was
\* returned, or in the loop of line 37 on its timer.
Invocation(slot, stage, promise) ==
    [op |-> "handler", slot |-> slot, stage |-> stage, promise |-> promise]

inFlight == { n \in DOMAIN server.attempts : server.attempts[n] = "pending" }

\* ensureReady, lines 43-55: a connection attempt is started and its
\* promise kept in `ready`.
startConnect(slot) ==
    LET n == Len(server.attempts) + 1
    IN  /\ n <= MaxAttempts
        /\ server' = [server EXCEPT !.isConnecting = TRUE, !.ready = n,
                                    !.attempts = Append(@, "pending")]
        /\ pending' = (pending \ { p \in pending : p.slot = slot })
                          \cup {Invocation(slot, "awaiting", n)}

\* ensureReady, lines 31-41, entered by a new invocation or re-entered in
\* the loop when the timer of line 38 fires.
ensureReady(slot) ==
    /\ IF server.ready # NoPromise
       THEN /\ pending' = (pending \ { p \in pending : p.slot = slot })
                              \cup {Invocation(slot, "awaiting", server.ready)}
            /\ UNCHANGED server
       ELSE IF server.isConnecting
       THEN /\ pending' = (pending \ { p \in pending : p.slot = slot })
                              \cup {Invocation(slot, "polling", NoPromise)}
            /\ UNCHANGED server
       ELSE startConnect(slot)
    /\ res' = NoRequest
    /\ UNCHANGED <<users, nextId, refreshTokens, issued, now, ticks, revoked, run>>
    /\ UNCHANGED <<generated, codes, deleted>>

\* Lines 45-48: connectDatabase has succeeded.
connectResolved(n) ==
    /\ server' = [server EXCEPT !.isConnecting = FALSE, !.attempts[n] = "resolved"]
    /\ res' = NoRequest
    /\ UNCHANGED <<users, nextId, refreshTokens, issued, now, ticks, revoked, run>>
    /\ UNCHANGED <<generated, codes, deleted, pending>>

\* connectRejected that leaves `ready` as it is.
connectRejectedKeepReady(n) ==
    /\ server' = [server EXCEPT !.isConnecting = FALSE, !.attempts[n] = "rejected"]
    /\ res' = NoRequest
    /\ UNCHANGED <<users, nextId, refreshTokens, issued, now, ticks, revoked, run>>
    /\ UNCHANGED <<generated, codes, deleted, pending>>

\* Lines 49-53: connectDatabase has failed.
connectRejected(n) ==
    /\ server' = [server EXCEPT !.isConnecting = FALSE, !.ready = NoPromise,
                                !.attempts[n] = "rejected"]
    /\ res' = NoRequest
    /\ UNCHANGED <<users, nextId, refreshTokens, issued, now, ticks, revoked, run>>
    /\ UNCHANGED <<generated, codes, deleted, pending>>

\* handler, lines 58-69, after `await ensureReady()`: the request goes to
\* the application, or the rejection is answered 500.
handler(p) ==
    LET req == [slot |-> p.slot, promise |-> p.promise]
    IN  /\ pending' = pending \ {p}
        /\ IF server.attempts[p.promise] = "resolved"
           THEN res' = [op |-> "app", req |-> req, status |-> 0, msg |-> "",
                        data |-> NoData]
           ELSE Respond("handler", req,
                    [status |-> 500, msg |-> "Internal server error", data |-> NoData])
        /\ UNCHANGED <<users, nextId, refreshTokens, issued, now, ticks, revoked, run>>
        /\ UNCHANGED <<generated, codes, deleted, server>>

Invoke ==
    /\ server.phase = "serving"
    /\ \E slot \in Slots :
           /\ \A p \in pending : p.slot # slot
           /\ ensureReady(slot)

ConnectSucceeds ==
    /\ server.phase = "serving"
    /\ \E n \in inFlight : connectResolved(n)

ConnectFails ==
    /\ server.phase = "serving"
    /\ \E n \in inFlight : connectRejected(n)

Resume ==
    /\ server.phase = "serving"
    /\ \E p \in pending :
           IF p.stage = "polling"
           THEN ensureReady(p.slot)
           ELSE /\ server.attempts[p.promise] # "pending"
                /\ handler(p)

EntryNext == Invoke \/ ConnectSucceeds \/ ConnectFails \/ Resume

SpecEntry == InitEntry /\ [][EntryNext]_vars

\* C39: at most one connectDatabase call is in flight; a request goes to
\* the application only when the connection attempt it waited for has
\* succeeded; `ready` never holds the promise of a failed attempt, so that
\* an invocation that finds no attempt in flight after a failure starts a
\* new one and none waits for a failed one that was over when it came.
C39_OneConnectNoEarlyDispatch ==
    [][ /\ Cardinality({ n \in DOMAIN server'.attempts :
                           server'.attempts[n] = "pending" }) <= 1
        /\ res'.op = "app" => server'.attempts[res'.req.promise] = "resolved"
        /\ server'.ready # NoPromise => server'.attempts[server'.ready] # "rejected"
        /\ \A p \in pending' \ pending :
              /\ p.stage = "awaiting"
              /\ p.promise \in DOMAIN server.attempts
                    => server.attempts[p.promise] # "rejected"
              /\ (server.ready = NoPromise /\ Len(server.attempts) > 0)
                    => /\ p.promise = Len(server.attempts) + 1
                       /\ server'.attempts[p.promise] = "pending" ]_vars

\* A request went to the application on the second attempt, the first
\* having failed.
C39_Witness ==
    /\ res.op = "app"
    /\ res.req.promise > 1
    /\ server.attempts[1] = "rejected"
    /\ server.attempts[res.req.promise] = "resolved"

====
